---- MODULE Spec2Model ----
(***************************************************************************)
(* Model of homework.py: the fitness-tracker module that turns sensor      *)
(* packages (workout code, parameter list) into Training records, computes *)
(* distance, mean speed and spent calories, and renders an InfoMessage.    *)
(*                                                                         *)
(* Numbers are Python's: ints, and floats that are IEEE 754 doubles        *)
(* (zeros, subnormals, infinities and NaN included) with every operation   *)
(* rounded to nearest, ties to even, as the interpreter does it.  A float  *)
(* is kept as sign, significand and exponent, so that 0.65 is the double   *)
(* nearest to 0.65, 1.0 // 0.1 is 9.0 and the format :.3f rounds the       *)
(* binary value that is stored.  The operator ** on floats is the pow of   *)
(* the C library, which is not always the correctly rounded power; it is   *)
(* computed here as glibc 2.36 computes it on x86-64 with FMA.             *)
(***************************************************************************)
EXTENDS Integers, Sequences, FiniteSets, TLC

-----------------------------------------------------------------------------
(* Natural numbers of any size: the limbs of the number in base 2^14, the   *)
(* lowest first, without high zero limbs; <<>> is zero.  TLC's integers     *)
(* are 32 bits wide and a double has a 53-bit significand.                 *)

LimbBits == 14
Base     == 16384

Abs(i) == IF i < 0 THEN -i ELSE i

RECURSIVE BTrim(_)
BTrim(a) ==
    IF a = <<>> THEN a
    ELSE IF a[Len(a)] = 0 THEN BTrim(SubSeq(a, 1, Len(a) - 1))
    ELSE a

RECURSIVE BFromNat(_)
BFromNat(n) == IF n = 0 THEN <<>> ELSE <<n % Base>> \o BFromNat(n \div Base)

RECURSIVE BitLen(_)
BitLen(n) == IF n = 0 THEN 0 ELSE 1 + BitLen(n \div 2)

BBitLen(a) ==
    IF a = <<>> THEN 0 ELSE (Len(a) - 1) * LimbBits + BitLen(a[Len(a)])

Limb(a, i) == IF i <= Len(a) THEN a[i] ELSE 0

RECURSIVE BCmpFrom(_, _, _)
BCmpFrom(a, b, i) ==
    IF i = 0 THEN 0
    ELSE IF a[i] < b[i] THEN -1
    ELSE IF a[i] > b[i] THEN 1
    ELSE BCmpFrom(a, b, i - 1)

\* -1, 0 or 1 as a < b, a = b or a > b
BCmp(a, b) ==
    IF Len(a) < Len(b) THEN -1
    ELSE IF Len(a) > Len(b) THEN 1
    ELSE BCmpFrom(a, b, Len(a))

RECURSIVE BAddFrom(_, _, _, _)
BAddFrom(a, b, i, c) ==
    IF i > Len(a) /\ i > Len(b) THEN (IF c = 0 THEN <<>> ELSE <<c>>)
    ELSE LET Carry(s) == <<s % Base>> \o BAddFrom(a, b, i + 1, s \div Base)
         IN  Carry(Limb(a, i) + Limb(b, i) + c)

BAdd(a, b) == BAddFrom(a, b, 1, 0)

RECURSIVE BSubFrom(_, _, _, _)
BSubFrom(a, b, i, c) ==
    IF i > Len(a) THEN <<>>
    ELSE LET Borrow(s) ==
                 <<s % Base>> \o BSubFrom(a, b, i + 1, IF s < 0 THEN 1 ELSE 0)
         IN  Borrow(a[i] - Limb(b, i) - c)

\* a - b, for a >= b
BSub(a, b) == BTrim(BSubFrom(a, b, 1, 0))

RECURSIVE BMulSmallFrom(_, _, _, _)
BMulSmallFrom(a, k, i, c) ==
    IF i > Len(a) THEN BFromNat(c)
    ELSE LET Carry(p) ==
                 <<p % Base>> \o BMulSmallFrom(a, k, i + 1, p \div Base)
         IN  Carry(a[i] * k + c)

\* a * k, for 0 <= k <= 2^16
BMulSmall(a, k) == IF k = 0 THEN <<>> ELSE BMulSmallFrom(a, k, 1, 0)

\* a * Base^k
BShiftLimbs(a, k) == IF a = <<>> THEN a ELSE [i \in 1..k |-> 0] \o a

RECURSIVE BMulFrom(_, _, _)
BMulFrom(a, b, j) ==
    IF j > Len(b) THEN <<>>
    ELSE BAdd(BMulSmall(a, b[j]), BShiftLimbs(BMulFrom(a, b, j + 1), 1))

BMul(a, b) == BMulFrom(a, b, 1)

RECURSIVE BDivSmallFrom(_, _, _, _, _)
\* the quotient limbs of a[i .. j], the highest first, and the remainder,
\* when r is the remainder the limbs above j have left: the upper half is
\* divided first and hands its remainder to the lower half
BDivSmallFrom(a, k, i, j, r) ==
    IF i > j THEN [q |-> <<>>, r |-> r]
    ELSE IF i = j
    THEN [q |-> <<(r * Base + a[i]) \div k>>, r |-> (r * Base + a[i]) % k]
    ELSE LET Join(high, low) == [q |-> high.q \o low.q, r |-> low.r]
             Lower(high) ==
                 Join(high, BDivSmallFrom(a, k, i, (i + j) \div 2, high.r))
         IN  Lower(BDivSmallFrom(a, k, (i + j) \div 2 + 1, j, r))

Reverse(s) == [i \in 1..Len(s) |-> s[Len(s) + 1 - i]]

\* quotient and remainder of a by k, for 1 <= k <= 2^16
BDivSmall(a, k) ==
    [BDivSmallFrom(a, k, 1, Len(a), 0) EXCEPT !.q = BTrim(Reverse(@))]

\* a * 2^s
BShl(a, s) == BShiftLimbs(BMulSmall(a, 2^(s % LimbBits)), s \div LimbBits)

\* a \div 2^s, and whether a nonzero remainder was dropped
BShr(a, s) ==
    LET Bits(k, d) ==
            [q |-> d.q, sticky |-> d.r # 0 \/ \E i \in 1..k : a[i] # 0]
        Limbs(k) ==
            IF k >= Len(a) THEN [q |-> <<>>, sticky |-> a # <<>>]
            ELSE Bits(k, BDivSmall(SubSeq(a, k + 1, Len(a)),
                                   2^(s % LimbBits)))
    IN  Limbs(s \div LimbBits)

\* a number below 2^56 as the pair <<high 28 bits, low 28 bits>>, and back
Pair(a) == <<Limb(a, 3) + Limb(a, 4) * Base, Limb(a, 1) + Limb(a, 2) * Base>>
UnPair(p) ==
    BTrim(<<p[2] % Base, p[2] \div Base, p[1] % Base, p[1] \div Base>>)

RECURSIVE DivBits(_, _, _)
\* the next n <= LimbBits bits q of the quotient r / d and the remainder
\* left: r * 2^n = q * d + remainder, for pairs r < d < 2^53
DivBits(r, d, n) ==
    IF n = 0 THEN [q |-> 0, r |-> r]
    ELSE IF n = 1
    THEN LET Bit(hi, lo) ==
                 IF hi > d[1] \/ (hi = d[1] /\ lo >= d[2])
                 THEN (IF lo >= d[2]
                       THEN [q |-> 1, r |-> <<hi - d[1], lo - d[2]>>]
                       ELSE [q |-> 1,
                             r |-> <<hi - d[1] - 1, lo - d[2] + Base * Base>>])
                 ELSE [q |-> 0, r |-> <<hi, lo>>]
         IN  Bit(2 * r[1] + (2 * r[2]) \div (Base * Base),
                 (2 * r[2]) % (Base * Base))
    ELSE LET Join(high, low, bits) ==
                 [q |-> high.q * 2^bits + low.q, r |-> low.r]
             After(high, bits) == Join(high, DivBits(high.r, d, bits), bits)
         IN  After(DivBits(r, d, n \div 2), n - n \div 2)

RECURSIVE DivLimbs(_, _, _)
\* the next k limbs q of the quotient r / d, the lowest first, and the
\* remainder left, for pairs r < d < 2^53
DivLimbs(r, d, k) ==
    IF k = 0 THEN [q |-> <<>>, r |-> r]
    ELSE LET Join(limb, rest) == [q |-> Append(rest.q, limb), r |-> rest.r]
             After(g) == Join(g.q, DivLimbs(g.r, d, k - 1))
         IN  After(DivBits(r, d, LimbBits))

\* the quotient q of a * 2^56 by d and whether the division is exact, for
\* 53-bit a and d (so a < 2 * d).  A divisor that is its top limb times
\* 2^42 divides limb by limb; any other divides bit by bit.
BLongDiv(a, d) ==
    IF d[1] = 0 /\ d[2] = 0 /\ d[3] = 0
    THEN LET Small(s) == [q |-> s.q, exact |-> s.r = 0]
         IN  Small(BDivSmall(BShiftLimbs(a, 1), d[4]))
    ELSE LET Low(top, g) ==
                 [q |-> BTrim(Append(g.q, top)), exact |-> g.r = <<0, 0>>]
         IN  IF BCmp(a, d) >= 0
             THEN Low(1, DivLimbs(Pair(BSub(a, d)), Pair(d), 4))
             ELSE Low(0, DivLimbs(Pair(a), Pair(d), 4))

RECURSIVE ModStep(_, _, _)
\* r * 2^n modulo d, for pairs r < d < 2^53
ModStep(r, d, n) ==
    IF n <= LimbBits THEN DivBits(r, d, n).r
    ELSE LET Rest(half) ==
                 IF half = <<0, 0>> THEN half
                 ELSE ModStep(half, d, n - n \div 2)
         IN  Rest(ModStep(r, d, n \div 2))

Pad3(i) ==
    IF i < 10 THEN "00" \o ToString(i)
    ELSE IF i < 100 THEN "0" \o ToString(i)
    ELSE ToString(i)

Pad4(i) == IF i < 1000 THEN "0" \o Pad3(i) ELSE ToString(i)

RECURSIVE BChunks(_, _)
\* the lowest 4 * n decimal digits of a and the quotient of a by 10^(4 * n);
\* the digits stop where nothing but leading zeros would follow
BChunks(a, n) ==
    IF n = 1
    THEN LET Chunk(d) == [q |-> d.q, s |-> Pad4(d.r)]
         IN  Chunk(BDivSmall(a, 10000))
    ELSE LET Join(low, high) == [q |-> high.q, s |-> high.s \o low.s]
             Upper(low) ==
                 IF low.q = <<>> THEN low
                 ELSE Join(low, BChunks(low.q, n - n \div 2))
         IN  Upper(BChunks(a, n \div 2))

RECURSIVE Unpadded(_)
\* the digits s without leading zeros
Unpadded(s) ==
    IF Len(s) > 1 /\ SubSeq(s, 1, 1) = "0"
    THEN Unpadded(SubSeq(s, 2, Len(s)))
    ELSE s

\* the decimal digits of a: a is below 2^(13 * n) < 10^(4 * n) for the
\* number n of chunks taken
BToString(a) == Unpadded(BChunks(a, BBitLen(a) \div 13 + 1).s)

-----------------------------------------------------------------------------
(* Python numbers.  An int is [t |-> "int", v].  A float is an IEEE 754     *)
(* double [t |-> "float", k, s, m, e]: of kind k = "num" it has the value   *)
(* (-1)^s * m * 2^e, where m is a big natural of exactly 53 bits and        *)
(* -1074 <= e <= 971 (a normal number), or m is below 2^52 and e = -1074 (a *)
(* subnormal number), or m = <<>> and e = 0 (the zeros 0.0 and -0.0); of    *)
(* kind "inf" it is the infinity of sign s, and of kind "nan" it is not a   *)
(* number.  Results are rounded to nearest, ties to even.                   *)

MantBits == 53
MinExp   == -1074
MaxExp   == 971

PyInt(v) == [t |-> "int", v |-> v]

PyFloat(s, m, e) == [t |-> "float", k |-> "num", s |-> s, m |-> m, e |-> e]

Inf(s) == [t |-> "float", k |-> "inf", s |-> s, m |-> <<>>, e |-> 0]
NaN    == [t |-> "float", k |-> "nan", s |-> 0, m |-> <<>>, e |-> 0]

PosZero == PyFloat(0, <<>>, 0)
NegZero == PyFloat(1, <<>>, 0)

\* 1.0
One == PyFloat(0, <<0, 0, 0, 1024>>, -52)

IsNaN(x)   == x.k = "nan"
IsInf(x)   == x.k = "inf"
FIsZero(x) == x.k = "num" /\ x.m = <<>>

\* Round, the last step: a zero, an infinity above the largest double, or
\* the number of significand q and exponent ex
RoundRanged(s, q, ex) ==
    IF q = <<>> THEN PyFloat(s, <<>>, 0)
    ELSE IF ex > MaxExp THEN Inf(s)
    ELSE PyFloat(s, q, ex)

\* Round: a significand that rounding up has carried to MantBits + 1 bits
\* is halved
RoundCarry(s, q, ex) ==
    RoundRanged(s,
                IF BBitLen(q) > MantBits THEN BShr(q, 1).q ELSE q,
                IF BBitLen(q) > MantBits THEN ex + 1 ELSE ex)

\* Round: dm.q is the significand before its last bit dm.r was dropped, st
\* tells whether nonzero bits were dropped below that one
RoundNearest(s, dm, st, ex) ==
    RoundCarry(s,
               IF dm.r = 1 /\ (st \/ Limb(dm.q, 1) % 2 = 1)
               THEN BAdd(dm.q, <<1>>) ELSE dm.q,
               ex)

\* Round: the significand brought to the exponent ex of the result; the
\* bits below are dropped, the last of them apart
RoundFit(s, m, e, sticky, ex) ==
    IF ex <= e THEN RoundRanged(s, BShl(m, e - ex), ex)
    ELSE RoundNearest(s, BDivSmall(BShr(m, ex - e - 1).q, 2),
                      sticky \/ BShr(m, ex - e - 1).sticky, ex)

\* the double nearest to (-1)^s * (m + f) * 2^e, where m # 0 and 0 <= f < 1
\* with f > 0 iff sticky (sticky only with more than MantBits + 1 bits in m):
\* an infinity above the largest double, a subnormal or a zero below the
\* smallest normal one
Round(s, m, e, sticky) ==
    RoundFit(s, m, e, sticky,
             IF e + BBitLen(m) - MantBits < MinExp THEN MinExp
             ELSE e + BBitLen(m) - MantBits)

\* x * 2^n, where no rounding is needed
Ldexp(x, n) == PyFloat(x.s, x.m, x.e + n)

\* the significand of a nonzero number widened to 53 bits, and its exponent
Norm(x) ==
    [m |-> BShl(x.m, MantBits - BBitLen(x.m)),
     e |-> x.e - (MantBits - BBitLen(x.m))]

\* float(x)
ToFloat(x) ==
    IF x.t = "float" THEN x
    ELSE IF x.v = 0 THEN PosZero
    ELSE Round(IF x.v < 0 THEN 1 ELSE 0, BFromNat(Abs(x.v)), 0, FALSE)

FNeg(x) == IF IsNaN(x) THEN x ELSE [x EXCEPT !.s = 1 - @]
FAbs(x) == [x EXCEPT !.s = 0]

FMul(x, y) ==
    IF IsNaN(x) \/ IsNaN(y) THEN NaN
    ELSE IF IsInf(x) \/ IsInf(y)
    THEN (IF FIsZero(x) \/ FIsZero(y) THEN NaN ELSE Inf((x.s + y.s) % 2))
    ELSE IF x.m = <<>> \/ y.m = <<>>
    THEN PyFloat((x.s + y.s) % 2, <<>>, 0)
    ELSE Round((x.s + y.s) % 2, BMul(x.m, y.m), x.e + y.e, FALSE)

\* FDiv of nonzero numbers with the significands a.m and b.m of 53 bits:
\* the quotient of the significands, rounded
FDivNormal(s, a, b) ==
    Round(s, BLongDiv(a.m, b.m).q, a.e - b.e - 4 * LimbBits,
          ~BLongDiv(a.m, b.m).exact)

\* x / y, for y # 0
FDiv(x, y) ==
    IF IsNaN(x) \/ IsNaN(y) THEN NaN
    ELSE IF IsInf(x)
    THEN (IF IsInf(y) THEN NaN ELSE Inf((x.s + y.s) % 2))
    ELSE IF IsInf(y) \/ x.m = <<>>
    THEN PyFloat((x.s + y.s) % 2, <<>>, 0)
    ELSE FDivNormal((x.s + y.s) % 2, Norm(x), Norm(y))

\* RoundSum, the last step: the terms have the same exponent ex
SumAligned(sh, mh, sl, ml, ex, sticky) ==
    IF sh # sl /\ BCmp(mh, ml) = 0 THEN PosZero
    ELSE Round(IF sh = sl \/ BCmp(mh, ml) > 0 THEN sh ELSE sl,
               IF sh = sl THEN BAdd(mh, ml)
               ELSE IF BCmp(mh, ml) > 0 THEN BSub(mh, ml)
               ELSE BSub(ml, mh),
               ex, sticky)

\* RoundSum: a second term that is far, below the last bit of the widened
\* first one, only makes the sum inexact: it counts as nothing, or as one
\* unit of the last bit taken away, with nonzero bits dropped below; any
\* other second term is added or subtracted exactly
SumPadded(sh, mh, eh, sl, ml, el, pad, far) ==
    SumAligned(sh, BShl(mh, IF far THEN pad ELSE eh - el),
               sl, IF far THEN (IF sh = sl THEN <<>> ELSE <<1>>) ELSE ml,
               IF far THEN eh - pad ELSE el, far)

SumWidened(sh, mh, eh, sl, ml, el, pad) ==
    SumPadded(sh, mh, eh, sl, ml, el, pad, el + BBitLen(ml) <= eh - pad)

\* RoundSum of the terms high and low, <<sign, significand, exponent>>, the
\* exponent of high not below that of low: the significand of high is
\* widened to MantBits + 3 bits at least
SumOrdered(high, low) ==
    SumWidened(high[1], high[2], high[3], low[1], low[2], low[3],
               IF BBitLen(high[2]) >= MantBits + 3 THEN 0
               ELSE MantBits + 3 - BBitLen(high[2]))

\* the double nearest to (-1)^sa * ma * 2^ea + (-1)^sb * mb * 2^eb, for
\* nonzero ma and mb
RoundSum(sa, ma, ea, sb, mb, eb) ==
    SumOrdered(IF ea >= eb THEN <<sa, ma, ea>> ELSE <<sb, mb, eb>>,
               IF ea >= eb THEN <<sb, mb, eb>> ELSE <<sa, ma, ea>>)

FAdd(x, y) ==
    IF IsNaN(x) \/ IsNaN(y) THEN NaN
    ELSE IF IsInf(x) THEN (IF IsInf(y) /\ x.s # y.s THEN NaN ELSE x)
    ELSE IF IsInf(y) THEN y
    ELSE IF x.m = <<>> /\ y.m = <<>>
    THEN (IF x.s = 1 /\ y.s = 1 THEN NegZero ELSE PosZero)
    ELSE IF x.m = <<>> THEN y
    ELSE IF y.m = <<>> THEN x
    ELSE RoundSum(x.s, x.m, x.e, y.s, y.m, y.e)

FSub(x, y) == FAdd(x, FNeg(y))

\* C fma(x, y, z): x * y + z with one rounding
FFma(x, y, z) ==
    IF IsNaN(x) \/ IsNaN(y) \/ IsNaN(z) THEN NaN
    ELSE IF IsInf(x) \/ IsInf(y)
    THEN (IF FIsZero(x) \/ FIsZero(y) THEN NaN
          ELSE IF IsInf(z) /\ z.s # (x.s + y.s) % 2 THEN NaN
          ELSE Inf((x.s + y.s) % 2))
    ELSE IF IsInf(z) THEN z
    ELSE IF x.m = <<>> \/ y.m = <<>>
    THEN (IF z.m # <<>> THEN z
          ELSE IF (x.s + y.s) % 2 = 1 /\ z.s = 1 THEN NegZero
          ELSE PosZero)
    ELSE IF z.m = <<>>
    THEN Round((x.s + y.s) % 2, BMul(x.m, y.m), x.e + y.e, FALSE)
    ELSE RoundSum((x.s + y.s) % 2, BMul(x.m, y.m), x.e + y.e,
                  z.s, z.m, z.e)

\* the result of FCmp on a NaN
Unordered == 2

\* -1, 0 or 1 as x < y, x = y or x > y (0.0 and -0.0 are equal), and
\* Unordered when either is not a number
FCmp(x, y) ==
    LET Signs(sx, sy) ==
            IF sx # sy THEN (IF sx < sy THEN -1 ELSE 1)
            ELSE IF sx = 0 THEN 0
            ELSE IF IsInf(x) \/ IsInf(y)
            THEN (IF IsInf(x) /\ IsInf(y) THEN 0
                  ELSE IF IsInf(x) THEN sx ELSE -sx)
            ELSE IF x.e # y.e THEN (IF x.e < y.e THEN -sx ELSE sx)
            ELSE sx * BCmp(x.m, y.m)
    IN  IF IsNaN(x) \/ IsNaN(y) THEN Unordered
        ELSE Signs(IF FIsZero(x) THEN 0 ELSE 1 - 2 * x.s,
                   IF FIsZero(y) THEN 0 ELSE 1 - 2 * y.s)

\* FFloor: the integer part sh.q as a float of sign s; a negative number
\* that is not whole goes one down
FFloorDown(s, sh) ==
    LET Whole(q) ==
            IF q = <<>> THEN PyFloat(s, <<>>, 0) ELSE Round(s, q, 0, FALSE)
    IN  Whole(IF s = 1 /\ sh.sticky THEN BAdd(sh.q, <<1>>) ELSE sh.q)

\* floor(x) as a float
FFloor(x) ==
    IF x.k # "num" \/ x.m = <<>> \/ x.e >= 0 THEN x
    ELSE FFloorDown(x.s, BShr(x.m, -x.e))

\* fmod of x = a.m * 2^a.e by b.m * 2^b.e, the significands of 53 bits:
\* the remainder r * 2^b.e with the sign of x
fmodNormal(x, a, b) ==
    LET Rem(r) ==
            IF r = <<>> THEN PyFloat(x.s, <<>>, 0)
            ELSE Round(x.s, r, b.e, FALSE)
    IN  IF a.e < b.e THEN x
        ELSE Rem(UnPair(ModStep(Pair(IF BCmp(a.m, b.m) >= 0
                                     THEN BSub(a.m, b.m) ELSE a.m),
                                Pair(b.m), a.e - b.e)))

\* C fmod(x, y), for y # 0: exact, with the sign of x
fmod(x, y) ==
    IF IsNaN(x) \/ IsNaN(y) \/ IsInf(x) THEN NaN
    ELSE IF IsInf(y) \/ x.m = <<>> THEN x
    ELSE fmodNormal(x, Norm(x), Norm(y))

\* float_floor_div: floordiv = floor(div), and one more if div - floordiv
\* is above 0.5, for a div that is not zero; else a zero of the sign of
\* vx / wx
float_floor_div_floor(vx, wx, div) ==
    LET Snap(floordiv) ==
            IF FCmp(FSub(div, floordiv), Ldexp(One, -1)) = 1
            THEN FAdd(floordiv, One)
            ELSE floordiv
    IN  IF ~FIsZero(div) THEN Snap(FFloor(div))
        ELSE PyFloat((vx.s + wx.s) % 2, <<>>, 0)

\* float_floor_div: div = (vx - mod) / wx, less 1.0 when mod is not zero
\* and has not the sign of wx
float_floor_div_adjust(vx, wx, mod, div) ==
    float_floor_div_floor(vx, wx,
        IF ~FIsZero(mod)
           /\ (FCmp(wx, PosZero) = -1) # (FCmp(mod, PosZero) = -1)
        THEN FSub(div, One)
        ELSE div)

float_floor_div_mod(vx, wx, mod) ==
    float_floor_div_adjust(vx, wx, mod, FDiv(FSub(vx, mod), wx))

\* CPython's _float_div_mod, the quotient part, for wx # 0:
\* mod = fmod(vx, wx); div = (vx - mod) / wx; if mod is not zero and
\* (wx < 0) != (mod < 0), div -= 1.0; if div is not zero, floordiv =
\* floor(div) and floordiv += 1.0 if div - floordiv > 0.5; else floordiv is
\* a zero of the sign of vx / wx
float_floor_div(vx, wx) == float_floor_div_mod(vx, wx, fmod(vx, wx))
-----------------------------------------------------------------------------
(* The C library's pow(x, y), which the interpreter calls for a float       *)
(* raised to a power: log(x) is taken as a sum hi + lo of two doubles from  *)
(* a table of 128 subintervals and a polynomial, multiplied by y, and       *)
(* exp of the product is taken from a table of 2^(j/128) and a polynomial.  *)
(* The result lies within 0.52 units in the last place of x^y; it is not    *)
(* always the double nearest to x^y.  The operations, their order and the   *)
(* fused multiply-adds are those of the library the interpreter runs on.    *)

\* the significand of OFF = 0x3fe6955500000000 (0.7055...), the lower end
\* of the interval the argument of log is scaled to
OffMant == <<0, 0, 5456, 1445>>

Ln2hi == PyFloat(0, <<14336, 15336, 9263, 1419>>, -53)
Ln2lo == PyFloat(0, <<10032, 3869, 13689, 1980>>, -97)

\* the coefficients A[0] .. A[6] of the polynomial of log1p
pow_log_poly ==
    << PyFloat(1, <<0, 0, 0, 1024>>, -53),
       PyFloat(1, <<5472, 5461, 5461, 1365>>, -53),
       PyFloat(0, <<6, 0, 0, 1024>>, -53),
       PyFloat(0, <<5454, 9573, 6553, 1638>>, -53),
       PyFloat(1, <<9338, 5286, 5461, 1365>>, -53),
       PyFloat(1, <<1513, 11553, 5561, 1170>>, -52),
       PyFloat(0, <<16323, 11416, 696, 1024>>, -52) >>

\* for i = 0 .. 127 the row <<invc, logc, logctail>>: invc close to 1 / c
\* and logc + logctail close to log(c), c near the centre of subinterval i
pow_log_tab ==
    << <<PyFloat(0, <<0, 0, 0, 1448>>, -52),
         PyFloat(1, <<2048, 2791, 2095, 1419>>, -54),
         PyFloat(0, <<5760, 8413, 578, 1709>>, -100)>>,
       <<PyFloat(0, <<0, 0, 0, 1440>>, -52),
         PyFloat(1, <<2048, 15712, 7131, 1396>>, -54),
         PyFloat(1, <<14112, 9091, 4237, 1833>>, -98)>>,
       <<PyFloat(0, <<0, 0, 0, 1432>>, -52),
         PyFloat(1, <<6144, 7445, 10097, 1373>>, -54),
         PyFloat(1, <<4205, 5849, 10829, 1240>>, -97)>>,
       <<PyFloat(0, <<0, 0, 0, 1424>>, -52),
         PyFloat(1, <<14336, 7351, 10968, 1350>>, -54),
         PyFloat(1, <<10197, 15041, 3657, 1441>>, -101)>>,
       <<PyFloat(0, <<0, 0, 0, 1416>>, -52),
         PyFloat(1, <<14336, 5597, 9721, 1327>>, -54),
         PyFloat(1, <<16096, 3236, 13977, 1286>>, -99)>>,
       <<PyFloat(0, <<0, 0, 0, 1408>>, -52),
         PyFloat(1, <<8192, 2161, 6332, 1304>>, -54),
         PyFloat(0, <<1228, 8498, 756, 1270>>, -98)>>,
       <<PyFloat(0, <<0, 0, 0, 1400>>, -52),
         PyFloat(1, <<10240, 6682, 776, 1281>>, -54),
         PyFloat(0, <<2874, 13832, 12094, 1808>>, -102)>>,
       <<PyFloat(0, <<0, 0, 0, 1392>>, -52),
         PyFloat(1, <<2048, 5541, 9413, 1257>>, -54),
         PyFloat(0, <<5216, 6470, 7272, 1068>>, -97)>>,
       <<PyFloat(0, <<0, 0, 0, 1384>>, -52),
         PyFloat(1, <<0, 10850, 15833, 1233>>, -54),
         PyFloat(0, <<146, 4886, 5341, 1366>>, -97)>>,
       <<PyFloat(0, <<0, 0, 0, 1376>>, -52),
         PyFloat(1, <<8192, 11140, 3627, 1210>>, -54),
         PyFloat(0, <<11224, 9948, 12777, 1438>>, -97)>>,
       <<PyFloat(0, <<0, 0, 0, 1368>>, -52),
         PyFloat(1, <<2048, 3962, 5537, 1186>>, -54),
         PyFloat(0, <<12351, 6974, 8523, 1394>>, -98)>>,
       <<PyFloat(0, <<0, 0, 0, 1368>>, -52),
         PyFloat(1, <<2048, 3962, 5537, 1186>>, -54),
         PyFloat(0, <<12351, 6974, 8523, 1394>>, -98)>>,
       <<PyFloat(0, <<0, 0, 0, 1360>>, -52),
         PyFloat(1, <<14336, 12093, 5151, 1162>>, -54),
         PyFloat(1, <<6774, 8527, 8770, 1430>>, -98)>>,
       <<PyFloat(0, <<0, 0, 0, 1352>>, -52),
         PyFloat(1, <<6144, 1446, 2444, 1138>>, -54),
         PyFloat(1, <<5124, 9117, 15302, 2027>>, -98)>>,
       <<PyFloat(0, <<0, 0, 0, 1344>>, -52),
         PyFloat(1, <<10240, 11950, 13770, 1113>>, -54),
         PyFloat(0, <<10480, 3594, 15459, 1991>>, -98)>>,
       <<PyFloat(0, <<0, 0, 0, 1336>>, -52),
         PyFloat(1, <<2048, 9913, 6335, 1089>>, -54),
         PyFloat(1, <<6758, 13333, 3151, 1450>>, -97)>>,
       <<PyFloat(0, <<0, 0, 0, 1328>>, -52),
         PyFloat(1, <<4096, 2510, 12878, 1064>>, -54),
         PyFloat(1, <<782, 15312, 16103, 1818>>, -99)>>,
       <<PyFloat(0, <<0, 0, 0, 1320>>, -52),
         PyFloat(1, <<4096, 4819, 601, 1040>>, -54),
         PyFloat(1, <<11647, 15312, 11145, 1037>>, -100)>>,
       <<PyFloat(0, <<0, 0, 0, 1320>>, -52),
         PyFloat(1, <<4096, 4819, 601, 1040>>, -54),
         PyFloat(1, <<11647, 15312, 11145, 1037>>, -100)>>,
       <<PyFloat(0, <<0, 0, 0, 1312>>, -52),
         PyFloat(1, <<0, 13689, 4486, 2030>>, -55),
         PyFloat(0, <<15495, 11876, 12970, 1877>>, -99)>>,
       <<PyFloat(0, <<0, 0, 0, 1304>>, -52),
         PyFloat(1, <<8192, 12145, 2780, 1980>>, -55),
         PyFloat(0, <<12068, 12826, 11129, 1737>>, -97)>>,
       <<PyFloat(0, <<0, 0, 0, 1296>>, -52),
         PyFloat(1, <<12288, 14507, 12406, 1929>>, -55),
         PyFloat(1, <<16144, 4351, 13557, 1483>>, -98)>>,
       <<PyFloat(0, <<0, 0, 0, 1288>>, -52),
         PyFloat(1, <<0, 11583, 534, 1879>>, -55),
         PyFloat(0, <<10267, 12073, 10523, 1134>>, -97)>>,
       <<PyFloat(0, <<0, 0, 0, 1280>>, -52),
         PyFloat(1, <<8192, 7786, 16252, 1827>>, -55),
         PyFloat(0, <<1076, 8830, 5366, 1502>>, -97)>>,
       <<PyFloat(0, <<0, 0, 0, 1280>>, -52),
         PyFloat(1, <<8192, 7786, 16252, 1827>>, -55),
         PyFloat(0, <<1076, 8830, 5366, 1502>>, -97)>>,
       <<PyFloat(0, <<0, 0, 0, 1272>>, -52),
         PyFloat(1, <<4096, 4278, 10343, 1776>>, -55),
         PyFloat(0, <<14223, 1582, 11011, 1619>>, -98)>>,
       <<PyFloat(0, <<0, 0, 0, 1264>>, -52),
         PyFloat(1, <<0, 14851, 15508, 1724>>, -55),
         PyFloat(0, <<4198, 16182, 9779, 1683>>, -104)>>,
       <<PyFloat(0, <<0, 0, 0, 1256>>, -52),
         PyFloat(1, <<12288, 16266, 15297, 1672>>, -55),
         PyFloat(1, <<490, 12571, 1613, 1379>>, -97)>>,
       <<PyFloat(0, <<0, 0, 0, 1256>>, -52),
         PyFloat(1, <<12288, 16266, 15297, 1672>>, -55),
         PyFloat(1, <<490, 12571, 1613, 1379>>, -97)>>,
       <<PyFloat(0, <<0, 0, 0, 1248>>, -52),
         PyFloat(1, <<4096, 13265, 9641, 1620>>, -55),
         PyFloat(1, <<5347, 4871, 7568, 1716>>, -97)>>,
       <<PyFloat(0, <<0, 0, 0, 1240>>, -52),
         PyFloat(1, <<4096, 5251, 14854, 1567>>, -55),
         PyFloat(0, <<14857, 16239, 7159, 1775>>, -97)>>,
       <<PyFloat(0, <<0, 0, 0, 1232>>, -52),
         PyFloat(1, <<8192, 2115, 14480, 1514>>, -55),
         PyFloat(0, <<2648, 2381, 14599, 1782>>, -97)>>,
       <<PyFloat(0, <<0, 0, 0, 1232>>, -52),
         PyFloat(1, <<8192, 2115, 14480, 1514>>, -55),
         PyFloat(0, <<2648, 2381, 14599, 1782>>, -97)>>,
       <<PyFloat(0, <<0, 0, 0, 1224>>, -52),
         PyFloat(1, <<4096, 7271, 8446, 1461>>, -55),
         PyFloat(1, <<8806, 3787, 1706, 1081>>, -98)>>,
       <<PyFloat(0, <<0, 0, 0, 1216>>, -52),
         PyFloat(1, <<4096, 670, 13063, 1407>>, -55),
         PyFloat(1, <<4153, 15425, 9273, 1959>>, -98)>>,
       <<PyFloat(0, <<0, 0, 0, 1216>>, -52),
         PyFloat(1, <<4096, 670, 13063, 1407>>, -55),
         PyFloat(1, <<4153, 15425, 9273, 1959>>, -98)>>,
       <<PyFloat(0, <<0, 0, 0, 1208>>, -52),
         PyFloat(1, <<12288, 3718, 11870, 1353>>, -55),
         PyFloat(1, <<7055, 29, 10425, 1079>>, -97)>>,
       <<PyFloat(0, <<0, 0, 0, 1200>>, -52),
         PyFloat(1, <<0, 13102, 4790, 1299>>, -55),
         PyFloat(0, <<14396, 1237, 3094, 1475>>, -98)>>,
       <<PyFloat(0, <<0, 0, 0, 1200>>, -52),
         PyFloat(1, <<0, 13102, 4790, 1299>>, -55),
         PyFloat(0, <<14396, 1237, 3094, 1475>>, -98)>>,
       <<PyFloat(0, <<0, 0, 0, 1192>>, -52),
         PyFloat(1, <<4096, 122, 8130, 1244>>, -55),
         PyFloat(0, <<5178, 13469, 2148, 1118>>, -100)>>,
       <<PyFloat(0, <<0, 0, 0, 1184>>, -52),
         PyFloat(1, <<12288, 8319, 5423, 1189>>, -55),
         PyFloat(1, <<1032, 7623, 4865, 1315>>, -97)>>,
       <<PyFloat(0, <<0, 0, 0, 1176>>, -52),
         PyFloat(1, <<8192, 5309, 12973, 1133>>, -55),
         PyFloat(1, <<9110, 8262, 2625, 1952>>, -97)>>,
       <<PyFloat(0, <<0, 0, 0, 1176>>, -52),
         PyFloat(1, <<8192, 5309, 12973, 1133>>, -55),
         PyFloat(1, <<9110, 8262, 2625, 1952>>, -97)>>,
       <<PyFloat(0, <<0, 0, 0, 1168>>, -52),
         PyFloat(1, <<4096, 13122, 14311, 1077>>, -55),
         PyFloat(0, <<7156, 9121, 6504, 1690>>, -99)>>,
       <<PyFloat(0, <<0, 0, 0, 1168>>, -52),
         PyFloat(1, <<4096, 13122, 14311, 1077>>, -55),
         PyFloat(0, <<7156, 9121, 6504, 1690>>, -99)>>,
       <<PyFloat(0, <<0, 0, 0, 1160>>, -52),
         PyFloat(1, <<8192, 1903, 2323, 2043>>, -56),
         PyFloat(1, <<13298, 12940, 5445, 1373>>, -97)>>,
       <<PyFloat(0, <<0, 0, 0, 1152>>, -52),
         PyFloat(1, <<0, 14508, 12406, 1929>>, -56),
         PyFloat(0, <<60, 11200, 706, 1677>>, -97)>>,
       <<PyFloat(0, <<0, 0, 0, 1152>>, -52),
         PyFloat(1, <<0, 14508, 12406, 1929>>, -56),
         PyFloat(0, <<60, 11200, 706, 1677>>, -97)>>,
       <<PyFloat(0, <<0, 0, 0, 1144>>, -52),
         PyFloat(1, <<0, 15727, 9544, 1815>>, -56),
         PyFloat(1, <<15878, 8574, 1397, 1859>>, -98)>>,
       <<PyFloat(0, <<0, 0, 0, 1136>>, -52),
         PyFloat(1, <<8192, 10539, 9939, 1700>>, -56),
         PyFloat(0, <<10952, 8558, 4958, 1358>>, -97)>>,
       <<PyFloat(0, <<0, 0, 0, 1136>>, -52),
         PyFloat(1, <<8192, 10539, 9939, 1700>>, -56),
         PyFloat(0, <<10952, 8558, 4958, 1358>>, -97)>>,
       <<PyFloat(0, <<0, 0, 0, 1128>>, -52),
         PyFloat(1, <<8192, 6342, 13405, 1584>>, -56),
         PyFloat(0, <<5736, 13501, 660, 1247>>, -98)>>,
       <<PyFloat(0, <<0, 0, 0, 1128>>, -52),
         PyFloat(1, <<8192, 6342, 13405, 1584>>, -56),
         PyFloat(0, <<5736, 13501, 660, 1247>>, -98)>>,
       <<PyFloat(0, <<0, 0, 0, 1120>>, -52),
         PyFloat(1, <<8192, 11157, 3368, 1468>>, -56),
         PyFloat(1, <<13274, 9421, 13180, 1445>>, -97)>>,
       <<PyFloat(0, <<0, 0, 0, 1112>>, -52),
         PyFloat(1, <<8192, 15384, 12403, 1350>>, -56),
         PyFloat(0, <<7767, 1817, 9654, 1984>>, -98)>>,
       <<PyFloat(0, <<0, 0, 0, 1112>>, -52),
         PyFloat(1, <<8192, 15384, 12403, 1350>>, -56),
         PyFloat(0, <<7767, 1817, 9654, 1984>>, -98)>>,
       <<PyFloat(0, <<0, 0, 0, 1104>>, -52),
         PyFloat(1, <<8192, 6255, 7545, 1232>>, -56),
         PyFloat(0, <<5087, 13284, 11692, 1815>>, -97)>>,
       <<PyFloat(0, <<0, 0, 0, 1104>>, -52),
         PyFloat(1, <<8192, 6255, 7545, 1232>>, -56),
         PyFloat(0, <<5087, 13284, 11692, 1815>>, -97)>>,
       <<PyFloat(0, <<0, 0, 0, 1096>>, -52),
         PyFloat(1, <<0, 14990, 4974, 1113>>, -56),
         PyFloat(0, <<8969, 6718, 1511, 1311>>, -98)>>,
       <<PyFloat(0, <<0, 0, 0, 1088>>, -52),
         PyFloat(1, <<0, 70, 8972, 1986>>, -57),
         PyFloat(0, <<3729, 3290, 6632, 1878>>, -97)>>,
       <<PyFloat(0, <<0, 0, 0, 1088>>, -52),
         PyFloat(1, <<0, 70, 8972, 1986>>, -57),
         PyFloat(0, <<3729, 3290, 6632, 1878>>, -97)>>,
       <<PyFloat(0, <<0, 0, 0, 1080>>, -52),
         PyFloat(1, <<0, 1126, 11735, 1744>>, -57),
         PyFloat(0, <<12364, 5977, 10158, 1824>>, -98)>>,
       <<PyFloat(0, <<0, 0, 0, 1080>>, -52),
         PyFloat(1, <<0, 1126, 11735, 1744>>, -57),
         PyFloat(0, <<12364, 5977, 10158, 1824>>, -98)>>,
       <<PyFloat(0, <<0, 0, 0, 1072>>, -52),
         PyFloat(1, <<0, 6347, 1423, 1501>>, -57),
         PyFloat(1, <<8686, 5066, 1123, 1855>>, -97)>>,
       <<PyFloat(0, <<0, 0, 0, 1072>>, -52),
         PyFloat(1, <<0, 6347, 1423, 1501>>, -57),
         PyFloat(1, <<8686, 5066, 1123, 1855>>, -97)>>,
       <<PyFloat(0, <<0, 0, 0, 1064>>, -52),
         PyFloat(1, <<0, 10235, 10363, 1255>>, -57),
         PyFloat(0, <<16042, 5275, 11135, 1344>>, -100)>>,
       <<PyFloat(0, <<0, 0, 0, 1064>>, -52),
         PyFloat(1, <<0, 10235, 10363, 1255>>, -57),
         PyFloat(0, <<16042, 5275, 11135, 1344>>, -100)>>,
       <<PyFloat(0, <<0, 0, 0, 1056>>, -52),
         PyFloat(1, <<0, 14816, 10672, 2016>>, -58),
         PyFloat(1, <<2532, 12792, 615, 1632>>, -97)>>,
       <<PyFloat(0, <<0, 0, 0, 1056>>, -52),
         PyFloat(1, <<0, 14816, 10672, 2016>>, -58),
         PyFloat(1, <<2532, 12792, 615, 1632>>, -97)>>,
       <<PyFloat(0, <<0, 0, 0, 1048>>, -52),
         PyFloat(1, <<0, 8022, 4528, 1518>>, -58),
         PyFloat(1, <<9785, 4074, 5449, 1571>>, -97)>>,
       <<PyFloat(0, <<0, 0, 0, 1040>>, -52),
         PyFloat(1, <<0, 1008, 2699, 2032>>, -59),
         PyFloat(1, <<9884, 6990, 10191, 1991>>, -102)>>,
       <<PyFloat(0, <<0, 0, 0, 1040>>, -52),
         PyFloat(1, <<0, 1008, 2699, 2032>>, -59),
         PyFloat(1, <<9884, 6990, 10191, 1991>>, -102)>>,
       <<PyFloat(0, <<0, 0, 0, 1032>>, -52),
         PyFloat(1, <<0, 11328, 678, 2040>>, -60),
         PyFloat(1, <<228, 14185, 9200, 1656>>, -98)>>,
       <<PyFloat(0, <<0, 0, 0, 1032>>, -52),
         PyFloat(1, <<0, 11328, 678, 2040>>, -60),
         PyFloat(1, <<228, 14185, 9200, 1656>>, -98)>>,
       <<PyFloat(0, <<0, 0, 0, 1024>>, -52),
         PyFloat(0, <<>>, 0),
         PyFloat(0, <<>>, 0)>>,
       <<PyFloat(0, <<0, 0, 0, 1024>>, -52),
         PyFloat(0, <<>>, 0),
         PyFloat(0, <<>>, 0)>>,
       <<PyFloat(0, <<0, 0, 0, 2032>>, -53),
         PyFloat(0, <<0, 5668, 343, 1028>>, -59),
         PyFloat(1, <<11240, 9844, 14009, 1073>>, -98)>>,
       <<PyFloat(0, <<0, 0, 0, 2016>>, -53),
         PyFloat(0, <<0, 8782, 1381, 1032>>, -58),
         PyFloat(1, <<14290, 7051, 1456, 1271>>, -97)>>,
       <<PyFloat(0, <<0, 0, 0, 2000>>, -53),
         PyFloat(0, <<0, 8996, 4690, 1554>>, -58),
         PyFloat(1, <<3124, 2408, 2979, 1704>>, -97)>>,
       <<PyFloat(0, <<0, 0, 0, 1984>>, -53),
         PyFloat(0, <<0, 10141, 5592, 1040>>, -57),
         PyFloat(0, <<5971, 13255, 7173, 1092>>, -99)>>,
       <<PyFloat(0, <<0, 0, 0, 1968>>, -53),
         PyFloat(0, <<0, 4280, 10989, 1305>>, -57),
         PyFloat(1, <<15656, 5879, 10039, 1797>>, -97)>>,
       <<PyFloat(0, <<0, 0, 0, 1952>>, -53),
         PyFloat(0, <<0, 4735, 2721, 1573>>, -57),
         PyFloat(1, <<9853, 360, 6493, 1630>>, -98)>>,
       <<PyFloat(0, <<0, 0, 0, 1936>>, -53),
         PyFloat(0, <<0, 14199, 14140, 1842>>, -57),
         PyFloat(1, <<10247, 8032, 3876, 1690>>, -98)>>,
       <<PyFloat(0, <<0, 0, 0, 1928>>, -53),
         PyFloat(0, <<0, 27, 8988, 1978>>, -57),
         PyFloat(1, <<15227, 16164, 5092, 1924>>, -99)>>,
       <<PyFloat(0, <<0, 0, 0, 1912>>, -53),
         PyFloat(0, <<8192, 1305, 13245, 1125>>, -56),
         PyFloat(1, <<7835, 6198, 9685, 1356>>, -97)>>,
       <<PyFloat(0, <<0, 0, 0, 1896>>, -53),
         PyFloat(0, <<8192, 8007, 8026, 1263>>, -56),
         PyFloat(0, <<3799, 5997, 1514, 1842>>, -97)>>,
       <<PyFloat(0, <<0, 0, 0, 1880>>, -53),
         PyFloat(0, <<8192, 13918, 5540, 1402>>, -56),
         PyFloat(1, <<7454, 12660, 4195, 1818>>, -97)>>,
       <<PyFloat(0, <<0, 0, 0, 1872>>, -53),
         PyFloat(0, <<0, 11179, 3376, 1472>>, -56),
         PyFloat(0, <<11570, 9847, 10458, 1799>>, -101)>>,
       <<PyFloat(0, <<0, 0, 0, 1856>>, -53),
         PyFloat(0, <<0, 13669, 13797, 1612>>, -56),
         PyFloat(0, <<2010, 10997, 5571, 1220>>, -97)>>,
       <<PyFloat(0, <<0, 0, 0, 1840>>, -53),
         PyFloat(0, <<8192, 14005, 11400, 1754>>, -56),
         PyFloat(1, <<10469, 12253, 2050, 1252>>, -98)>>,
       <<PyFloat(0, <<0, 0, 0, 1832>>, -53),
         PyFloat(0, <<0, 1777, 1408, 1826>>, -56),
         PyFloat(0, <<11475, 6506, 11548, 1425>>, -97)>>,
       <<PyFloat(0, <<0, 0, 0, 1816>>, -53),
         PyFloat(0, <<8192, 3112, 13208, 1969>>, -56),
         PyFloat(1, <<1504, 16281, 1674, 1904>>, -97)>>,
       <<PyFloat(0, <<0, 0, 0, 1808>>, -53),
         PyFloat(0, <<8192, 10095, 2323, 2042>>, -56),
         PyFloat(1, <<2813, 16004, 3428, 1357>>, -97)>>,
       <<PyFloat(0, <<0, 0, 0, 1792>>, -53),
         PyFloat(0, <<8192, 2207, 14568, 1093>>, -55),
         PyFloat(0, <<2034, 14516, 14220, 1147>>, -97)>>,
       <<PyFloat(0, <<0, 0, 0, 1784>>, -53),
         PyFloat(0, <<12288, 14479, 8887, 1130>>, -55),
         PyFloat(0, <<6452, 4322, 14564, 1833>>, -97)>>,
       <<PyFloat(0, <<0, 0, 0, 1768>>, -53),
         PyFloat(0, <<0, 12826, 5648, 1204>>, -55),
         PyFloat(0, <<13473, 11782, 5836, 1255>>, -99)>>,
       <<PyFloat(0, <<0, 0, 0, 1760>>, -53),
         PyFloat(0, <<4096, 86, 8139, 1241>>, -55),
         PyFloat(0, <<12937, 3373, 14978, 1419>>, -103)>>,
       <<PyFloat(0, <<0, 0, 0, 1744>>, -53),
         PyFloat(0, <<12288, 3278, 5080, 1316>>, -55),
         PyFloat(0, <<13944, 5110, 14229, 1376>>, -97)>>,
       <<PyFloat(0, <<0, 0, 0, 1736>>, -53),
         PyFloat(0, <<12288, 4742, 15966, 1353>>, -55),
         PyFloat(0, <<15815, 5541, 16014, 1420>>, -97)>>,
       <<PyFloat(0, <<0, 0, 0, 1720>>, -53),
         PyFloat(0, <<4096, 14896, 13547, 1429>>, -55),
         PyFloat(0, <<11896, 12528, 14514, 1651>>, -98)>>,
       <<PyFloat(0, <<0, 0, 0, 1712>>, -53),
         PyFloat(0, <<12288, 11733, 296, 1468>>, -55),
         PyFloat(1, <<8673, 5744, 6366, 1348>>, -97)>>,
       <<PyFloat(0, <<0, 0, 0, 1704>>, -53),
         PyFloat(0, <<4096, 5393, 6360, 1506>>, -55),
         PyFloat(1, <<773, 581, 8455, 1817>>, -98)>>,
       <<PyFloat(0, <<0, 0, 0, 1688>>, -53),
         PyFloat(0, <<0, 11492, 11006, 1583>>, -55),
         PyFloat(1, <<11473, 11172, 5450, 1487>>, -99)>>,
       <<PyFloat(0, <<0, 0, 0, 1680>>, -53),
         PyFloat(0, <<0, 13276, 9645, 1622>>, -55),
         PyFloat(0, <<16239, 8835, 8837, 1532>>, -99)>>,
       <<PyFloat(0, <<0, 0, 0, 1664>>, -53),
         PyFloat(0, <<8192, 12843, 16083, 1700>>, -55),
         PyFloat(1, <<8553, 344, 9269, 1564>>, -97)>>,
       <<PyFloat(0, <<0, 0, 0, 1656>>, -53),
         PyFloat(0, <<4096, 7535, 7557, 1740>>, -55),
         PyFloat(1, <<8618, 15027, 6356, 1805>>, -99)>>,
       <<PyFloat(0, <<0, 0, 0, 1648>>, -53),
         PyFloat(0, <<8192, 8431, 2163, 1780>>, -55),
         PyFloat(1, <<4790, 9552, 15429, 1874>>, -97)>>,
       <<PyFloat(0, <<0, 0, 0, 1640>>, -53),
         PyFloat(0, <<4096, 7104, 16316, 1819>>, -55),
         PyFloat(1, <<11218, 5720, 1836, 1147>>, -100)>>,
       <<PyFloat(0, <<0, 0, 0, 1624>>, -53),
         PyFloat(0, <<4096, 850, 5083, 1900>>, -55),
         PyFloat(1, <<12341, 7254, 12975, 1727>>, -97)>>,
       <<PyFloat(0, <<0, 0, 0, 1616>>, -53),
         PyFloat(0, <<4096, 16284, 12527, 1940>>, -55),
         PyFloat(0, <<13360, 263, 8822, 1156>>, -103)>>,
       <<PyFloat(0, <<0, 0, 0, 1608>>, -53),
         PyFloat(0, <<0, 4980, 6878, 1981>>, -55),
         PyFloat(1, <<3601, 5870, 4438, 1672>>, -103)>>,
       <<PyFloat(0, <<0, 0, 0, 1600>>, -53),
         PyFloat(0, <<12288, 13006, 4550, 2022>>, -55),
         PyFloat(0, <<7984, 10291, 16076, 1778>>, -98)>>,
       <<PyFloat(0, <<0, 0, 0, 1584>>, -53),
         PyFloat(0, <<6144, 309, 4998, 1052>>, -54),
         PyFloat(0, <<3729, 7093, 3505, 1575>>, -100)>>,
       <<PyFloat(0, <<0, 0, 0, 1576>>, -53),
         PyFloat(0, <<8192, 7557, 726, 1073>>, -54),
         PyFloat(0, <<10985, 6387, 2225, 1478>>, -97)>>,
       <<PyFloat(0, <<0, 0, 0, 1568>>, -53),
         PyFloat(0, <<10240, 2207, 14568, 1093>>, -54),
         PyFloat(1, <<12316, 3735, 4326, 1800>>, -97)>>,
       <<PyFloat(0, <<0, 0, 0, 1560>>, -53),
         PyFloat(0, <<14336, 11955, 13772, 1114>>, -54),
         PyFloat(0, <<5761, 7828, 11487, 1766>>, -97)>>,
       <<PyFloat(0, <<0, 0, 0, 1552>>, -53),
         PyFloat(0, <<10240, 3433, 14742, 1135>>, -54),
         PyFloat(0, <<15799, 1310, 11989, 1833>>, -97)>>,
       <<PyFloat(0, <<0, 0, 0, 1544>>, -53),
         PyFloat(0, <<14336, 13370, 1110, 1157>>, -54),
         PyFloat(0, <<15082, 10522, 15851, 1697>>, -99)>>,
       <<PyFloat(0, <<0, 0, 0, 1528>>, -53),
         PyFloat(0, <<4096, 13170, 12039, 1199>>, -54),
         PyFloat(0, <<1268, 10560, 4004, 1703>>, -97)>>,
       <<PyFloat(0, <<0, 0, 0, 1520>>, -53),
         PyFloat(0, <<8192, 1869, 3870, 1221>>, -54),
         PyFloat(1, <<15544, 3204, 10157, 1592>>, -97)>>,
       <<PyFloat(0, <<0, 0, 0, 1512>>, -53),
         PyFloat(0, <<4096, 6904, 13943, 1242>>, -54),
         PyFloat(0, <<14280, 965, 11483, 1115>>, -98)>>,
       <<PyFloat(0, <<0, 0, 0, 1504>>, -53),
         PyFloat(0, <<12288, 7372, 9511, 1264>>, -54),
         PyFloat(0, <<15708, 6170, 13643, 1550>>, -98)>>,
       <<PyFloat(0, <<0, 0, 0, 1496>>, -53),
         PyFloat(0, <<10240, 3927, 6978, 1286>>, -54),
         PyFloat(0, <<8349, 12867, 878, 1593>>, -99)>>,
       <<PyFloat(0, <<0, 0, 0, 1488>>, -53),
         PyFloat(0, <<2048, 2503, 6364, 1308>>, -54),
         PyFloat(1, <<5749, 9631, 15584, 1993>>, -97)>>,
       <<PyFloat(0, <<0, 0, 0, 1480>>, -53),
         PyFloat(0, <<12288, 14428, 7689, 1330>>, -54),
         PyFloat(1, <<6308, 11307, 2193, 1928>>, -97)>>,
       <<PyFloat(0, <<0, 0, 0, 1472>>, -53),
         PyFloat(0, <<8192, 7394, 10976, 1352>>, -54),
         PyFloat(0, <<1881, 1427, 9992, 1967>>, -97)>>,
       <<PyFloat(0, <<0, 0, 0, 1464>>, -53),
         PyFloat(0, <<4096, 3875, 16245, 1374>>, -54),
         PyFloat(0, <<239, 14709, 7902, 2027>>, -98)>>,
       <<PyFloat(0, <<0, 0, 0, 1456>>, -53),
         PyFloat(0, <<8192, 15717, 7133, 1397>>, -54),
         PyFloat(1, <<9692, 8849, 12960, 1666>>, -99)>> >>

InvLn2N   == PyFloat(0, <<766, 5294, 5238, 1477>>, -45)
Shift     == PyFloat(0, <<0, 0, 0, 1536>>, 0)
NegLn2hiN == PyFloat(1, <<0, 15336, 9263, 1419>>, -60)
NegLn2loN == PyFloat(1, <<15162, 12920, 14763, 1853>>, -99)

\* the coefficients C2 .. C5 of the polynomial of exp
exp_poly ==
    << PyFloat(0, <<15805, 16383, 16383, 2047>>, -54),
       PyFloat(0, <<5180, 5461, 5461, 1365>>, -55),
       PyFloat(0, <<11153, 15452, 5468, 1365>>, -57),
       PyFloat(0, <<4119, 7827, 4374, 1092>>, -59) >>

\* for j = 0 .. 127 the row <<tail, scale>>: scale + tail close to
\* 2^(j/128).  The library keeps the bits of scale less j * 2^45, so that
\* adding ki * 2^45 puts floor(ki / 128) into the exponent field.
exp_tab ==
    << <<PyFloat(0, <<>>, 0),
         PyFloat(0, <<0, 0, 0, 1024>>, -52)>>,
       <<PyFloat(0, <<16238, 10786, 13553, 1742>>, -106),
         PyFloat(0, <<13109, 10220, 9178, 1029>>, -52)>>,
       <<PyFloat(1, <<7261, 13155, 313, 1112>>, -108),
         PyFloat(0, <<97, 14814, 2467, 1035>>, -52)>>,
       <<PyFloat(1, <<9937, 541, 10145, 1047>>, -106),
         PyFloat(0, <<16261, 8633, 12638, 1040>>, -52)>>,
       <<PyFloat(0, <<13843, 5535, 9507, 1844>>, -107),
         PyFloat(0, <<1396, 3158, 6925, 1046>>, -52)>>,
       <<PyFloat(1, <<3834, 4070, 10242, 1779>>, -107),
         PyFloat(0, <<14046, 10103, 1714, 1052>>, -52)>>,
       <<PyFloat(0, <<2145, 1947, 13542, 1085>>, -109),
         PyFloat(0, <<7112, 8662, 13393, 1057>>, -52)>>,
       <<PyFloat(0, <<5017, 11471, 15941, 1064>>, -106),
         PyFloat(0, <<13187, 11035, 9196, 1063>>, -52)>>,
       <<PyFloat(0, <<15213, 13837, 10853, 1510>>, -106),
         PyFloat(0, <<2319, 13286, 5510, 1069>>, -52)>>,
       <<PyFloat(0, <<12284, 3063, 4521, 1965>>, -107),
         PyFloat(0, <<2039, 11721, 2338, 1075>>, -52)>>,
       <<PyFloat(0, <<7377, 190, 9175, 1967>>, -112),
         PyFloat(0, <<4514, 2895, 16067, 1080>>, -52)>>,
       <<PyFloat(1, <<11787, 9793, 13128, 1664>>, -109),
         PyFloat(0, <<4891, 16379, 13930, 1086>>, -52)>>,
       <<PyFloat(1, <<15630, 10430, 9506, 1365>>, -106),
         PyFloat(0, <<6993, 73, 12317, 1092>>, -52)>>,
       <<PyFloat(1, <<10837, 12603, 3832, 1056>>, -110),
         PyFloat(0, <<12748, 432, 11228, 1098>>, -52)>>,
       <<PyFloat(1, <<13334, 10071, 4667, 1138>>, -106),
         PyFloat(0, <<11744, 15012, 10666, 1104>>, -52)>>,
       <<PyFloat(0, <<5551, 9585, 15934, 1076>>, -107),
         PyFloat(0, <<3665, 8854, 10636, 1110>>, -52)>>,
       <<PyFloat(1, <<4936, 10902, 12638, 1030>>, -107),
         PyFloat(0, <<4475, 12789, 11139, 1116>>, -52)>>,
       <<PyFloat(1, <<12861, 6008, 16133, 1991>>, -107),
         PyFloat(0, <<3562, 8754, 12179, 1122>>, -52)>>,
       <<PyFloat(0, <<5055, 15437, 6339, 1762>>, -107),
         PyFloat(0, <<2933, 11711, 13758, 1128>>, -52)>>,
       <<PyFloat(1, <<11046, 6215, 6599, 1462>>, -106),
         PyFloat(0, <<7380, 4113, 15880, 1134>>, -52)>>,
       <<PyFloat(0, <<12128, 14568, 3955, 1723>>, -106),
         PyFloat(0, <<14762, 1442, 2163, 1141>>, -52)>>,
       <<PyFloat(1, <<14493, 11800, 14380, 2041>>, -107),
         PyFloat(0, <<6429, 3059, 5378, 1147>>, -52)>>,
       <<PyFloat(0, <<909, 4763, 13332, 1691>>, -107),
         PyFloat(0, <<3286, 8586, 9144, 1153>>, -52)>>,
       <<PyFloat(0, <<1149, 912, 8283, 1054>>, -107),
         PyFloat(0, <<7318, 1527, 13465, 1159>>, -52)>>,
       <<PyFloat(0, <<10388, 3746, 12254, 1443>>, -106),
         PyFloat(0, <<8760, 14805, 1958, 1166>>, -52)>>,
       <<PyFloat(0, <<2173, 2513, 8591, 1495>>, -107),
         PyFloat(0, <<9791, 16074, 7396, 1172>>, -52)>>,
       <<PyFloat(0, <<10226, 8319, 12985, 1041>>, -107),
         PyFloat(0, <<15581, 6025, 13398, 1178>>, -52)>>,
       <<PyFloat(1, <<2142, 15812, 1971, 1454>>, -106),
         PyFloat(0, <<9089, 2005, 3582, 1185>>, -52)>>,
       <<PyFloat(0, <<11057, 13350, 15894, 1213>>, -107),
         PyFloat(0, <<7905, 5247, 10719, 1191>>, -52)>>,
       <<PyFloat(1, <<16378, 10686, 6577, 1864>>, -112),
         PyFloat(0, <<6544, 875, 2045, 1198>>, -52)>>,
       <<PyFloat(0, <<2740, 2096, 14375, 1741>>, -107),
         PyFloat(0, <<779, 7056, 10330, 1204>>, -52)>>,
       <<PyFloat(0, <<2959, 10043, 2344, 1925>>, -109),
         PyFloat(0, <<12118, 9464, 2810, 1211>>, -52)>>,
       <<PyFloat(0, <<11190, 14018, 5972, 1235>>, -107),
         PyFloat(0, <<14101, 10438, 12256, 1217>>, -52)>>,
       <<PyFloat(0, <<13388, 2737, 8222, 1424>>, -107),
         PyFloat(0, <<6193, 12595, 5903, 1224>>, -52)>>,
       <<PyFloat(0, <<14410, 14159, 5013, 2039>>, -107),
         PyFloat(0, <<5887, 2448, 139, 1231>>, -52)>>,
       <<PyFloat(1, <<6916, 11833, 14339, 1448>>, -107),
         PyFloat(0, <<8177, 15946, 11349, 1237>>, -52)>>,
       <<PyFloat(1, <<4200, 12589, 11996, 1170>>, -106),
         PyFloat(0, <<10699, 7402, 6771, 1244>>, -52)>>,
       <<PyFloat(1, <<11662, 11588, 16257, 1601>>, -106),
         PyFloat(0, <<6246, 13335, 2790, 1251>>, -52)>>,
       <<PyFloat(1, <<14034, 14928, 7811, 1140>>, -108),
         PyFloat(0, <<8183, 5014, 15795, 1257>>, -52)>>,
       <<PyFloat(1, <<6933, 3896, 4507, 1606>>, -106),
         PyFloat(0, <<10469, 3150, 13020, 1264>>, -52)>>,
       <<PyFloat(0, <<3181, 7337, 13450, 1383>>, -107),
         PyFloat(0, <<13346, 12360, 10852, 1271>>, -52)>>,
       <<PyFloat(1, <<10634, 10401, 9735, 1220>>, -106),
         PyFloat(0, <<28, 4786, 9296, 1278>>, -52)>>,
       <<PyFloat(1, <<2395, 8286, 14580, 1577>>, -110),
         PyFloat(0, <<11818, 2012, 8354, 1285>>, -52)>>,
       <<PyFloat(1, <<6683, 7462, 2486, 1803>>, -108),
         PyFloat(0, <<10391, 9538, 8029, 1292>>, -52)>>,
       <<PyFloat(0, <<11281, 778, 16086, 1240>>, -111),
         PyFloat(0, <<2349, 390, 8326, 1299>>, -52)>>,
       <<PyFloat(0, <<9455, 11289, 8339, 1433>>, -106),
         PyFloat(0, <<87, 13428, 9246, 1306>>, -52)>>,
       <<PyFloat(0, <<889, 10884, 3613, 1971>>, -109),
         PyFloat(0, <<15568, 5892, 10795, 1313>>, -52)>>,
       <<PyFloat(0, <<4656, 15420, 14563, 1279>>, -106),
         PyFloat(0, <<5086, 863, 12975, 1320>>, -52)>>,
       <<PyFloat(0, <<12208, 11754, 3307, 1444>>, -108),
         PyFloat(0, <<10791, 5336, 15789, 1327>>, -52)>>,
       <<PyFloat(0, <<8311, 11603, 7134, 1223>>, -106),
         PyFloat(0, <<7437, 10231, 2857, 1335>>, -52)>>,
       <<PyFloat(1, <<9102, 454, 832, 2021>>, -107),
         PyFloat(0, <<11431, 6772, 6951, 1342>>, -52)>>,
       <<PyFloat(1, <<9033, 12878, 11469, 1527>>, -107),
         PyFloat(0, <<9794, 2877, 11690, 1349>>, -52)>>,
       <<PyFloat(1, <<14431, 13372, 11371, 1591>>, -108),
         PyFloat(0, <<3970, 6773, 693, 1357>>, -52)>>,
       <<PyFloat(1, <<7414, 12781, 9326, 1412>>, -107),
         PyFloat(0, <<4623, 10614, 6732, 1364>>, -52)>>,
       <<PyFloat(0, <<6030, 9207, 4177, 1229>>, -106),
         PyFloat(0, <<10202, 6868, 13427, 1371>>, -52)>>,
       <<PyFloat(0, <<6917, 15914, 2930, 1766>>, -108),
         PyFloat(0, <<2045, 4703, 4397, 1379>>, -52)>>,
       <<PyFloat(0, <<5129, 2161, 15902, 1048>>, -106),
         PyFloat(0, <<5161, 13601, 12413, 1386>>, -52)>>,
       <<PyFloat(0, <<1770, 103, 14421, 1329>>, -112),
         PyFloat(0, <<1719, 10597, 4712, 1394>>, -52)>>,
       <<PyFloat(0, <<53, 11667, 11874, 1292>>, -106),
         PyFloat(0, <<8520, 5812, 14065, 1401>>, -52)>>,
       <<PyFloat(1, <<13983, 1637, 1190, 1849>>, -107),
         PyFloat(0, <<7177, 9691, 7707, 1409>>, -52)>>,
       <<PyFloat(1, <<3496, 12221, 15443, 1804>>, -107),
         PyFloat(0, <<5509, 233, 2027, 1417>>, -52)>>,
       <<PyFloat(1, <<10670, 9391, 14216, 1300>>, -107),
         PyFloat(0, <<800, 4915, 13411, 1424>>, -52)>>,
       <<PyFloat(1, <<6232, 8537, 11735, 1267>>, -106),
         PyFloat(0, <<8741, 2388, 9096, 1432>>, -52)>>,
       <<PyFloat(0, <<6500, 504, 2728, 1476>>, -110),
         PyFloat(0, <<10611, 4402, 5469, 1440>>, -52)>>,
       <<PyFloat(1, <<8744, 15736, 16123, 1260>>, -106),
         PyFloat(0, <<15309, 6652, 2534, 1448>>, -52)>>,
       <<PyFloat(1, <<14722, 7378, 10968, 1668>>, -109),
         PyFloat(0, <<6847, 5167, 295, 1456>>, -52)>>,
       <<PyFloat(1, <<10734, 8630, 16123, 1241>>, -109),
         PyFloat(0, <<6703, 12692, 15139, 1463>>, -52)>>,
       <<PyFloat(1, <<2129, 4994, 981, 1079>>, -107),
         PyFloat(0, <<5252, 9542, 14303, 1471>>, -52)>>,
       <<PyFloat(1, <<16079, 14696, 13895, 1543>>, -108),
         PyFloat(0, <<8052, 9137, 14174, 1479>>, -52)>>,
       <<PyFloat(1, <<15792, 557, 9388, 1467>>, -107),
         PyFloat(0, <<372, 8854, 14756, 1487>>, -52)>>,
       <<PyFloat(1, <<9866, 14679, 4897, 1414>>, -107),
         PyFloat(0, <<10185, 6409, 16053, 1495>>, -52)>>,
       <<PyFloat(0, <<5331, 14375, 3253, 1063>>, -106),
         PyFloat(0, <<7487, 16249, 1684, 1504>>, -52)>>,
       <<PyFloat(1, <<9501, 9526, 11723, 1740>>, -108),
         PyFloat(0, <<391, 4012, 4423, 1512>>, -52)>>,
       <<PyFloat(0, <<107, 4511, 4053, 1339>>, -106),
         PyFloat(0, <<306, 1219, 7888, 1520>>, -52)>>,
       <<PyFloat(0, <<11349, 12121, 15898, 1402>>, -109),
         PyFloat(0, <<3682, 6973, 12083, 1528>>, -52)>>,
       <<PyFloat(1, <<3906, 16079, 7250, 1576>>, -107),
         PyFloat(0, <<6674, 4344, 629, 1537>>, -52)>>,
       <<PyFloat(1, <<14132, 1260, 7023, 1242>>, -106),
         PyFloat(0, <<3603, 9523, 6297, 1545>>, -52)>>,
       <<PyFloat(1, <<16158, 10343, 10307, 1047>>, -107),
         PyFloat(0, <<1965, 6287, 12708, 1553>>, -52)>>,
       <<PyFloat(1, <<5998, 8649, 1293, 1333>>, -106),
         PyFloat(0, <<4845, 11538, 3481, 1562>>, -52)>>,
       <<PyFloat(0, <<2560, 11322, 5749, 1067>>, -106),
         PyFloat(0, <<9881, 9769, 11389, 1570>>, -52)>>,
       <<PyFloat(0, <<10932, 1987, 13052, 1901>>, -107),
         PyFloat(0, <<8411, 2218, 3668, 1579>>, -52)>>,
       <<PyFloat(1, <<10239, 13079, 9737, 1389>>, -109),
         PyFloat(0, <<1164, 6869, 13089, 1587>>, -52)>>,
       <<PyFloat(0, <<8004, 10189, 10293, 1789>>, -108),
         PyFloat(0, <<14134, 9301, 6889, 1596>>, -52)>>,
       <<PyFloat(1, <<15747, 7288, 4602, 1218>>, -106),
         PyFloat(0, <<16326, 11847, 1456, 1605>>, -52)>>,
       <<PyFloat(1, <<7721, 11696, 7048, 1898>>, -110),
         PyFloat(0, <<1509, 823, 13179, 1613>>, -52)>>,
       <<PyFloat(1, <<14681, 12866, 16279, 1800>>, -109),
         PyFloat(0, <<4623, 12065, 9292, 1622>>, -52)>>,
       <<PyFloat(1, <<14762, 3027, 13362, 1168>>, -106),
         PyFloat(0, <<3664, 16249, 6185, 1631>>, -52)>>,
       <<PyFloat(1, <<3659, 7578, 9933, 1394>>, -107),
         PyFloat(0, <<1978, 808, 3863, 1640>>, -52)>>,
       <<PyFloat(0, <<3623, 11847, 16322, 1131>>, -108),
         PyFloat(0, <<12432, 2703, 2328, 1649>>, -52)>>,
       <<PyFloat(0, <<13243, 1065, 9054, 1908>>, -109),
         PyFloat(0, <<8995, 10124, 1585, 1658>>, -52)>>,
       <<PyFloat(1, <<8803, 2440, 4162, 1521>>, -107),
         PyFloat(0, <<9573, 11639, 1639, 1667>>, -52)>>,
       <<PyFloat(0, <<12757, 3976, 2158, 1735>>, -107),
         PyFloat(0, <<11571, 12584, 2494, 1676>>, -52)>>,
       <<PyFloat(1, <<15125, 3826, 15645, 1134>>, -106),
         PyFloat(0, <<9565, 2296, 4155, 1685>>, -52)>>,
       <<PyFloat(0, <<12754, 13240, 793, 1075>>, -106),
         PyFloat(0, <<13144, 3266, 6625, 1694>>, -52)>>,
       <<PyFloat(0, <<6835, 14797, 6214, 1306>>, -107),
         PyFloat(0, <<15807, 5607, 9909, 1703>>, -52)>>,
       <<PyFloat(1, <<7604, 7738, 15577, 1207>>, -107),
         PyFloat(0, <<13178, 16207, 14011, 1712>>, -52)>>,
       <<PyFloat(0, <<13191, 2860, 10105, 1798>>, -107),
         PyFloat(0, <<5037, 9579, 2553, 1722>>, -52)>>,
       <<PyFloat(1, <<6650, 11079, 14580, 1054>>, -106),
         PyFloat(0, <<13926, 9782, 8306, 1731>>, -52)>>,
       <<PyFloat(1, <<11962, 7026, 15765, 1392>>, -110),
         PyFloat(0, <<5627, 8508, 14891, 1740>>, -52)>>,
       <<PyFloat(1, <<13888, 13979, 227, 1065>>, -106),
         PyFloat(0, <<6458, 14229, 5928, 1750>>, -52)>>,
       <<PyFloat(1, <<4916, 8886, 12099, 1589>>, -109),
         PyFloat(0, <<7751, 3053, 14191, 1759>>, -52)>>,
       <<PyFloat(1, <<2613, 11618, 11814, 1147>>, -106),
         PyFloat(0, <<1610, 644, 6915, 1769>>, -52)>>,
       <<PyFloat(0, <<7629, 10623, 15728, 1343>>, -108),
         PyFloat(0, <<466, 303, 489, 1779>>, -52)>>,
       <<PyFloat(1, <<6316, 10826, 8127, 1135>>, -106),
         PyFloat(0, <<7689, 12124, 11301, 1788>>, -52)>>,
       <<PyFloat(0, <<3251, 700, 10979, 1243>>, -108),
         PyFloat(0, <<4764, 13845, 6589, 1798>>, -52)>>,
       <<PyFloat(0, <<15764, 12927, 13093, 1976>>, -107),
         PyFloat(0, <<4218, 16383, 2741, 1808>>, -52)>>,
       <<PyFloat(0, <<6572, 1061, 2301, 1336>>, -107),
         PyFloat(0, <<4427, 14687, 16146, 1817>>, -52)>>,
       <<PyFloat(0, <<6759, 8504, 6899, 1267>>, -109),
         PyFloat(0, <<10165, 4123, 14041, 1827>>, -52)>>,
       <<PyFloat(0, <<6504, 12872, 12998, 1498>>, -109),
         PyFloat(0, <<4201, 13246, 12813, 1837>>, -52)>>,
       <<PyFloat(1, <<13778, 3890, 8584, 1058>>, -107),
         PyFloat(0, <<1018, 5495, 12469, 1847>>, -52)>>,
       <<PyFloat(1, <<14959, 16383, 5587, 2027>>, -107),
         PyFloat(0, <<2428, 10270, 13012, 1857>>, -52)>>,
       <<PyFloat(1, <<10569, 8662, 6883, 1027>>, -106),
         PyFloat(0, <<2546, 8246, 14448, 1867>>, -52)>>,
       <<PyFloat(0, <<1959, 6388, 14426, 1320>>, -108),
         PyFloat(0, <<9351, 13294, 397, 1878>>, -52)>>,
       <<PyFloat(1, <<8719, 256, 6626, 1188>>, -107),
         PyFloat(0, <<920, 6950, 3633, 1888>>, -52)>>,
       <<PyFloat(0, <<4780, 5894, 9485, 1942>>, -107),
         PyFloat(0, <<12933, 3948, 7776, 1898>>, -52)>>,
       <<PyFloat(0, <<11083, 12293, 9626, 1294>>, -107),
         PyFloat(0, <<13408, 3078, 12831, 1908>>, -52)>>,
       <<PyFloat(1, <<15903, 7888, 4624, 1205>>, -107),
         PyFloat(0, <<7007, 3566, 2419, 1919>>, -52)>>,
       <<PyFloat(1, <<3529, 11548, 11155, 1610>>, -107),
         PyFloat(0, <<8489, 5078, 9313, 1929>>, -52)>>,
       <<PyFloat(0, <<2259, 234, 8262, 1325>>, -108),
         PyFloat(0, <<16374, 7724, 750, 1940>>, -52)>>,
       <<PyFloat(0, <<12913, 1653, 7877, 1265>>, -107),
         PyFloat(0, <<3203, 12061, 9503, 1950>>, -52)>>,
       <<PyFloat(1, <<4592, 16206, 12584, 2045>>, -107),
         PyFloat(0, <<4314, 2706, 2810, 1961>>, -52)>>,
       <<PyFloat(1, <<13437, 2189, 10638, 1899>>, -107),
         PyFloat(0, <<10225, 13881, 13442, 1971>>, -52)>>,
       <<PyFloat(0, <<8200, 1704, 15300, 1968>>, -107),
         PyFloat(0, <<6695, 14725, 8638, 1982>>, -52)>>,
       <<PyFloat(0, <<11058, 3751, 14668, 1290>>, -107),
         PyFloat(0, <<14999, 7598, 4787, 1993>>, -52)>>,
       <<PyFloat(0, <<1518, 1862, 2707, 1689>>, -107),
         PyFloat(0, <<1344, 11705, 1893, 2004>>, -52)>>,
       <<PyFloat(1, <<9197, 4335, 15278, 1933>>, -107),
         PyFloat(0, <<15892, 13938, 16346, 2014>>, -52)>>,
       <<PyFloat(0, <<3485, 13895, 5044, 1506>>, -108),
         PyFloat(0, <<4312, 1658, 15384, 2025>>, -52)>>,
       <<PyFloat(0, <<3209, 1411, 7188, 1217>>, -110),
         PyFloat(0, <<12785, 11837, 15394, 2036>>, -52)>> >>

\* floor(log2 |x|) for a nonzero number: the exponent field less the bias
TopExp(x) == x.e + BBitLen(x.m) - 1

\* the integer an integral float of less than 2^28 in magnitude holds
ToInt(x) ==
    IF x.m = <<>> THEN 0
    ELSE LET Value(q) == (1 - 2 * x.s) * (Limb(q, 1) + Limb(q, 2) * Base)
         IN  Value(BShr(x.m, -x.e).q)

\* log_inline, for x = m * 2^e with m of 53 bits.  With ix the bits of x:
\*     tmp = ix - OFF; i = (tmp >> 52 - 7) % 128; k = (int64) tmp >> 52;
\*     iz = ix - (tmp & 0xfff << 52); z = asdouble(iz); kd = (double) k
\* so that x = 2^k * z with z in [OFF, 2 * OFF) and i the subinterval of z;
\*     r = fma(z, invc, -1.0)
\*     t1 = kd * Ln2hi + logc; t2 = t1 + r
\*     lo1 = kd * Ln2lo + logctail; lo2 = t1 - t2 + r
\*     ar = A[0] * r; ar2 = r * ar; ar3 = r * ar2
\*     hi = t2 + ar2; lo3 = fma(ar, r, -ar2); lo4 = t2 - hi + ar2
\*     p = ar3 * (A[1] + r * A[2] + ar2 * (A[3] + r * A[4]
\*                                         + ar2 * (A[5] + r * A[6])))
\*     lo = lo1 + lo2 + lo3 + lo4 + p
\*     y = hi + lo; *tail = hi - y + lo; return y
\* with every a * b + c above contracted to fma(a, b, c)
\* y = hi + lo; *tail = hi - y + lo
log_inline_sum(hi, lo) ==
    [hi |-> FAdd(hi, lo), lo |-> FAdd(FSub(hi, FAdd(hi, lo)), lo)]

\* p without its factor ar3
log_inline_poly(r, ar2) ==
    FFma(ar2,
         FFma(ar2,
              FFma(r, pow_log_poly[7], pow_log_poly[6]),
              FFma(r, pow_log_poly[5], pow_log_poly[4])),
         FFma(r, pow_log_poly[3], pow_log_poly[2]))

\* lo = lo1 + lo2 + lo3 + lo4 + p
log_inline_lo(r, t1, t2, lo1, ar, ar2, hi) ==
    FFma(FMul(r, ar2), log_inline_poly(r, ar2),
         FAdd(FAdd(FAdd(lo1, FAdd(FSub(t1, t2), r)),
                   FFma(ar, r, FNeg(ar2))),
              FAdd(FSub(t2, hi), ar2)))

log_inline_hi(r, t1, t2, lo1, ar, ar2, hi) ==
    log_inline_sum(hi, log_inline_lo(r, t1, t2, lo1, ar, ar2, hi))

log_inline_squares(r, t1, t2, lo1, ar, ar2) ==
    log_inline_hi(r, t1, t2, lo1, ar, ar2, FAdd(t2, ar2))

log_inline_linear(r, t1, lo1, ar) ==
    log_inline_squares(r, t1, FAdd(t1, r), lo1, ar, FMul(r, ar))

log_inline_reduced(r, kd, row) ==
    log_inline_linear(r, FFma(kd, Ln2hi, row[2]), FFma(kd, Ln2lo, row[3]),
                      FMul(pow_log_poly[1], r))

\* z, k and the row i of the table
log_inline_scaled(z, k, row) ==
    log_inline_reduced(FFma(z, row[1], FNeg(One)), ToFloat(PyInt(k)), row)

\* above = 1 when m is OffMant or more (z = m * 2^-53), else 0
\* (z = m * 2^-52); d is the significand field of tmp
log_inline_interval(m, e, above, d) ==
    log_inline_scaled(PyFloat(0, m, -MantBits + 1 - above),
                      e + MantBits - 1 + above,
                      pow_log_tab[Limb(BShr(d, MantBits - 1 - 7).q, 1) + 1])

log_inline(m, e) ==
    log_inline_interval(m, e,
                        IF BCmp(m, OffMant) >= 0 THEN 1 ELSE 0,
                        IF BCmp(m, OffMant) >= 0 THEN BSub(m, OffMant)
                        ELSE BSub(BAdd(m, One.m), OffMant))

\* specialcase: the result when the exponent of scale may be out of range.
\*     if ((ki & 0x80000000) == 0) {
\*         sbits -= 1009ull << 52; scale = asdouble(sbits);
\*         return 0x1p1009 * (scale + scale * tmp); }
\*     sbits += 1022ull << 52; scale = asdouble(sbits);
\*     y = scale + scale * tmp;
\*     if (fabs(y) < 1.0) {
\*         one = y < 0.0 ? -1.0 : 1.0;
\*         lo = scale - y + scale * tmp; hi = one + y;
\*         lo = one - hi + y + lo; y = (hi + lo) - one;
\*         if (y == 0.0) y = asdouble(sbits & 0x8000000000000000); }
\*     return 0x1p-1022 * y
\* Here scale is 2^(j/128) and n = ki as a signed number, j = n % 128; the
\* first sum is contracted to fma(scale, tmp, scale), the second is not.
\* lo = one - hi + y + lo; y = (hi + lo) - one; a zero y is made 0.0
specialcase_low(y, hi, lo, one) ==
    LET Fixed(sum) == IF FIsZero(sum) THEN PosZero ELSE sum
    IN  Fixed(FSub(FAdd(FAdd(FAdd(FSub(one, hi), y), lo), hi), one))

\* lo = scale - y + scale * tmp; hi = one + y
specialcase_small(s, st, y, one) ==
    specialcase_low(y, FAdd(one, y), FAdd(FSub(s, y), st), one)

specialcase_under(s, st, y) ==
    FMul(IF FCmp(FAbs(y), One) = -1
         THEN specialcase_small(s, st, y,
                  IF FCmp(y, PosZero) = -1 THEN FNeg(One) ELSE One)
         ELSE y,
         Ldexp(One, -1022))

\* y = scale + scale * tmp, the product rounded before the sum
specialcase_product(s, st) == specialcase_under(s, st, FAdd(s, st))

specialcase(tmp, scale, n) ==
    IF n >= 0
    THEN FMul(Ldexp(One, 1009),
              FFma(Ldexp(scale, n \div 128 - 1009), tmp,
                   Ldexp(scale, n \div 128 - 1009)))
    ELSE specialcase_product(Ldexp(scale, n \div 128 + 1022),
                             FMul(tmp, Ldexp(scale, n \div 128 + 1022)))

\* exp_inline(x, xtail, 0): exp(x + xtail).
\*     abstop = top12(x) & 0x7ff
\*     if (abstop - top12(0x1p-54) >= top12(0x1p9) - top12(0x1p-54)) {
\*         if (abstop - top12(0x1p-54) >= 0x80000000) return 1.0 + x;
\*         if (abstop >= top12(0x1p10))
\*             return asuint64(x) >> 63 ? __math_uflow(0) : __math_oflow(0);
\*         abstop = 0; }
\*     z = InvLn2N * x; kd = z + Shift; ki = asuint64(kd); kd -= Shift;
\*     r = x + kd * NegLn2hiN + kd * NegLn2loN; r += xtail;
\*     idx = 2 * (ki % 128); top = ki << (52 - 7);
\*     tail = asdouble(T[idx]); sbits = T[idx + 1] + top;
\*     r2 = r * r;
\*     tmp = tail + r + r2 * (C2 + r * C3) + r2 * r2 * (C4 + r * C5);
\*     if (abstop == 0) return specialcase(tmp, sbits, ki);
\*     scale = asdouble(sbits); return scale + scale * tmp
\* with every a * b + c contracted to fma(a, b, c).  The low bits of ki are
\* the integer n that kd holds after kd -= Shift; adding top to T[idx + 1]
\* gives the double 2^(j/128) * 2^floor(n/128), j = n % 128.
exp_inline_result(tmp, n, row, special) ==
    IF special THEN specialcase(tmp, row[2], n)
    ELSE FFma(tmp, Ldexp(row[2], n \div 128), Ldexp(row[2], n \div 128))

exp_inline_tmp(r, r2, tail) ==
    FFma(FFma(r, exp_poly[4], exp_poly[3]), FMul(r2, r2),
         FFma(FFma(r, exp_poly[2], exp_poly[1]), r2, FAdd(r, tail)))

exp_inline_reduced(r, n, row, special) ==
    exp_inline_result(exp_inline_tmp(r, FMul(r, r), row[1]), n, row, special)

\* r = x + kd * NegLn2hiN + kd * NegLn2loN; r += xtail; n is the integer
\* kd holds, and row j = n % 128 of the table is taken
exp_inline_index(x, xtail, kd, special) ==
    exp_inline_reduced(
        FAdd(xtail, FFma(kd, NegLn2loN, FFma(kd, NegLn2hiN, x))),
        ToInt(kd), exp_tab[(ToInt(kd) % 128) + 1], special)

\* top is floor(log2 |x|)
exp_inline_range(x, xtail, top) ==
    IF top < -54 THEN FAdd(One, x)
    ELSE IF top >= 10 THEN (IF x.s = 1 THEN PosZero ELSE Inf(0))
    ELSE exp_inline_index(x, xtail,
                          FSub(FFma(x, InvLn2N, Shift), Shift), top >= 9)

exp_inline(x, xtail) ==
    IF x.m = <<>> THEN FAdd(One, x)
    ELSE exp_inline_range(x, xtail, TopExp(x))

\* pow(x, y), for finite x > 0 and finite y # 0.
\*     if (|y| < 0x1p-65 or |y| >= 0x1p63) {
\*         if (x == 1.0) return 1.0;
\*         if (|y| < 0x1p-65) return x > 1.0 ? 1.0 + y : 1.0 - y;
\*         return (x > 1.0) == (y > 0) ? __math_oflow(0) : __math_uflow(0); }
\*     a subnormal x is scaled to a normal one;
\*     hi = log_inline(ix, &lo);
\*     ehi = y * hi; elo = y * lo + fma(y, hi, -ehi);
\*     return exp_inline(ehi, elo, 0)
\* __math_oflow returns an infinity and __math_uflow a zero.
\* l = log_inline(ix, &lo) as [hi, lo]
pow_exp(y, l, ehi) ==
    exp_inline(ehi, FFma(y, l.lo, FFma(l.hi, y, FNeg(ehi))))

pow_log(y, l) == pow_exp(y, l, FMul(y, l.hi))

\* |y| < 0x1p-65 (tiny) or |y| >= 0x1p63
pow_extreme(x, y, tiny) ==
    IF FCmp(x, One) = 0 THEN One
    ELSE IF tiny
    THEN (IF FCmp(x, One) = 1 THEN FAdd(One, y) ELSE FSub(One, y))
    ELSE IF (FCmp(x, One) = 1) = (y.s = 0) THEN Inf(0)
    ELSE PosZero

pow(x, y) ==
    IF TopExp(y) < -65 \/ TopExp(y) >= 63
    THEN pow_extreme(x, y, TopExp(y) < -65)
    ELSE pow_log(y, log_inline(Norm(x).m, Norm(x).e))
-----------------------------------------------------------------------------
(* Call outcomes: a returned value or a raised exception.                  *)

None == [cls |-> "None"]

Return(v) == [raised |-> "none", value |-> v]
Raise(e)  == [raised |-> e, value |-> None]

-----------------------------------------------------------------------------
(* Python's numeric operators: int op int stays an int (true division      *)
(* excepted); an int meeting a float is converted to float first.          *)

IsInt(x)  == x.t = "int"
IsZero(x) == IF IsInt(x) THEN x.v = 0 ELSE FIsZero(x)

\* -1 for a negative number and for -0.0, else 1
Sign(x) == IF IsInt(x) THEN (IF x.v < 0 THEN -1 ELSE 1) ELSE 1 - 2 * x.s

\* x + y
Add(x, y) ==
    IF IsInt(x) /\ IsInt(y) THEN PyInt(x.v + y.v)
    ELSE FAdd(ToFloat(x), ToFloat(y))

\* x - y
Sub(x, y) ==
    IF IsInt(x) /\ IsInt(y) THEN PyInt(x.v - y.v)
    ELSE FSub(ToFloat(x), ToFloat(y))

\* x * y
Mul(x, y) ==
    IF IsInt(x) /\ IsInt(y) THEN PyInt(x.v * y.v)
    ELSE FMul(ToFloat(x), ToFloat(y))

\* x / y, for y # 0 (the callers raise ZeroDivisionError otherwise)
Div(x, y) == FDiv(ToFloat(x), ToFloat(y))

\* CPython's float_pow(v, w) for the exponent w = 2.0 of the source, which
\* is not zero, finite and an even integer:
\*     if (isnan(iv)) return iv;
\*     if (isinf(iv)) return fabs(iv);
\*     if (iv == 0.0) return 0.0;
\*     if (iv < 0.0) iv = -iv;
\*     if (iv == 1.0) return 1.0;
\*     errno = 0; ix = pow(iv, iw);
\*     an infinite ix sets errno to ERANGE and a zero ix clears it;
\*     if (errno != 0) raise OverflowError;
\*     return ix
float_pow(iv, iw) ==
    LET Checked(ix) ==
            IF IsInf(ix) THEN Raise("OverflowError") ELSE Return(ix)
    IN  IF IsNaN(iv) THEN Return(iv)
        ELSE IF IsInf(iv) THEN Return(FAbs(iv))
        ELSE IF FIsZero(iv) THEN Return(PosZero)
        ELSE IF FCmp(FAbs(iv), One) = 0 THEN Return(One)
        ELSE Checked(pow(FAbs(iv), iw))

\* x ** 2: Return(the power) or Raise("OverflowError").  The int 2 is
\* converted to the float 2.0 when x is a float.
Pow2(x) ==
    IF IsInt(x) THEN Return(PyInt(x.v * x.v))
    ELSE float_pow(x, ToFloat(PyInt(2)))

\* x // y, for y # 0
FloorDiv(x, y) ==
    IF IsInt(x) /\ IsInt(y)
    THEN PyInt(IF y.v > 0 THEN x.v \div y.v ELSE (-x.v) \div (-y.v))
    ELSE float_floor_div(ToFloat(x), ToFloat(y))

\* numeric comparison: -1, 0, 1 or Unordered
Cmp(x, y) == FCmp(ToFloat(x), ToFloat(y))
Eq(x, y)  == Cmp(x, y) = 0
Lt(x, y)  == Cmp(x, y) = -1
Le(x, y)  == Cmp(x, y) \in {-1, 0}

\* the float a decimal literal n/d of the source denotes
Lit(n, d) == Div(PyInt(n), PyInt(d))

\* the format specification :.3f : the exact value rounded to three
\* decimals, ties to even; the sign is kept even when the digits are zero
Format3f(x) ==
    LET Digits(f, parts) ==
            (IF f.s = 1 THEN "-" ELSE "")
            \o BToString(parts.q) \o "." \o Pad3(parts.r)
        Nearest(dm, sticky) ==
            IF dm.r = 1 /\ (sticky \/ Limb(dm.q, 1) % 2 = 1)
            THEN BAdd(dm.q, <<1>>) ELSE dm.q
        Halve(sh) == Nearest(BDivSmall(sh.q, 2), sh.sticky)
        Thousandths(f, M) ==
            IF f.e >= 0 THEN BShl(M, f.e) ELSE Halve(BShr(M, -f.e - 1))
        Of(f) ==
            IF IsNaN(f) THEN "nan"
            ELSE IF IsInf(f) THEN (IF f.s = 1 THEN "-inf" ELSE "inf")
            ELSE Digits(f, BDivSmall(Thousandths(f, BMulSmall(f.m, 1000)),
                                     1000))
    IN  Of(ToFloat(x))

-----------------------------------------------------------------------------
(* Class constants.                                                        *)

M_IN_KM                 == 1000
MINUTES_IN_HOUR         == 60
LEN_STEP                == Lit(65, 100)
Swimming_LEN_STEP       == Lit(138, 100)
RATE_CALORIE_RUN_LEFT   == 18
RATE_CALORIE_RUN_RIGHT  == 20
RATE_CALORIE_WALK_LEFT  == Lit(35, 1000)
RATE_CALORIE_WALK_RIGHT == Lit(29, 1000)
RATE_CALORIE_SWIM_LEFT  == Lit(11, 10)
RATE_CALORIE_SWIM_RIGHT == 2

-----------------------------------------------------------------------------
(* Constructors.  A record carries its class name and the attributes its   *)
(* __init__ assigns.  Python binds the unpacked list to the parameters of  *)
(* __init__ and raises TypeError when the count differs.                   *)

Training_init(args) ==
    [cls |-> "Training", action |-> args[1], duration |-> args[2],
     weight |-> args[3]]

\* Running inherits Training.__init__
Running_init(args) ==
    [cls |-> "Running", action |-> args[1], duration |-> args[2],
     weight |-> args[3]]

SportsWalking_init(args) ==
    [cls |-> "SportsWalking", action |-> args[1], duration |-> args[2],
     weight |-> args[3], height |-> args[4]]

Swimming_init(args) ==
    [cls |-> "Swimming", action |-> args[1], duration |-> args[2],
     weight |-> args[3], length_pool |-> args[4], count_pool |-> args[5]]

\* number of positional parameters of each class's __init__ (self excluded)
InitParams(cls) ==
    CASE cls = "Running"       -> <<"action", "duration", "weight">>
      [] cls = "SportsWalking" -> <<"action", "duration", "weight", "height">>
      [] cls = "Swimming"      -> <<"action", "duration", "weight",
                                    "length_pool", "count_pool">>

InitOf(cls, args) ==
    CASE cls = "Running"       -> Running_init(args)
      [] cls = "SportsWalking" -> SportsWalking_init(args)
      [] cls = "Swimming"      -> Swimming_init(args)

\* mutant: surplus arguments are dropped instead of rejected
Instantiate_DropsSurplus(cls, args) ==
    IF Len(args) < Len(InitParams(cls))
    THEN Raise("TypeError")
    ELSE Return(InitOf(cls, args))

\* the call of the class on the unpacked parameter list
Instantiate(cls, args) ==
    IF Len(args) # Len(InitParams(cls))
    THEN Raise("TypeError")
    ELSE Return(InitOf(cls, args))

-----------------------------------------------------------------------------
(* Methods.  Each returns Return(value) or Raise(exception).               *)

\* mutant: metres are not converted to kilometres
Training_get_distance_NoKm(self) ==
    Return(Mul(self.action, LEN_STEP))

Training_get_distance(self) ==
    Return(Div(Mul(self.action, LEN_STEP), PyInt(M_IN_KM)))

Swimming_get_distance(self) ==
    Return(Div(Mul(self.action, Swimming_LEN_STEP), PyInt(M_IN_KM)))

get_distance(self) ==
    IF self.cls = "Swimming"
    THEN Swimming_get_distance(self)
    ELSE Training_get_distance(self)

Training_get_mean_speed(self) ==
    IF IsZero(self.duration)
    THEN Raise("ZeroDivisionError")
    ELSE Return(Div(get_distance(self).value, self.duration))

\* mutant: the override is missing, speed comes from the stroke distance
Swimming_get_mean_speed_NotOverridden(self) ==
    Training_get_mean_speed(self)

Swimming_get_mean_speed(self) ==
    IF IsZero(self.duration)
    THEN Raise("ZeroDivisionError")
    ELSE Return(Div(Div(Mul(self.length_pool, self.count_pool),
                        PyInt(M_IN_KM)),
                    self.duration))

get_mean_speed(self) ==
    IF self.cls = "Swimming"
    THEN Swimming_get_mean_speed(self)
    ELSE Training_get_mean_speed(self)

\* mutant: the hours are not converted to minutes
Running_get_spent_calories_NoMinutes(self) ==
    LET Calories(speed) ==
            IF speed.raised # "none" THEN speed
            ELSE Return(Mul(Div(Mul(Sub(Mul(PyInt(RATE_CALORIE_RUN_LEFT),
                                            speed.value),
                                        PyInt(RATE_CALORIE_RUN_RIGHT)),
                                    self.weight),
                                PyInt(M_IN_KM)),
                            self.duration))
    IN  Calories(get_mean_speed(self))

Running_get_spent_calories(self) ==
    LET Calories(speed) ==
            IF speed.raised # "none" THEN speed
            ELSE LET Second(first_part) ==
                         Return(Mul(Mul(Div(Mul(first_part, self.weight),
                                            PyInt(M_IN_KM)),
                                        self.duration),
                                    PyInt(MINUTES_IN_HOUR)))
                 IN  Second(Sub(Mul(PyInt(RATE_CALORIE_RUN_LEFT),
                                    speed.value),
                                PyInt(RATE_CALORIE_RUN_RIGHT)))
    IN  Calories(get_mean_speed(self))

\* self.get_mean_speed() ** 2: the exception get_mean_speed raises, or the
\* outcome of the power
Squared(speed) ==
    IF speed.raised # "none" THEN speed ELSE Pow2(speed.value)

\* mutant: the floor is taken after the multiplications by 0.029 and weight
SportsWalking_get_spent_calories_FloorLast(self) ==
    LET Calories(square) ==
            IF square.raised # "none" THEN square
            ELSE IF IsZero(self.height) THEN Raise("ZeroDivisionError")
            ELSE Return(Add(
                     FloorDiv(Mul(Mul(Div(square.value, self.height),
                                      RATE_CALORIE_WALK_RIGHT),
                                  self.weight),
                              PyInt(1)),
                     Mul(Mul(Mul(RATE_CALORIE_WALK_LEFT, self.weight),
                             self.duration),
                         PyInt(MINUTES_IN_HOUR))))
    IN  Calories(Squared(get_mean_speed(self)))

\* mutant: the two terms are subtracted instead of added
SportsWalking_get_spent_calories_Minus(self) ==
    LET Calories(square) ==
            IF square.raised # "none" THEN square
            ELSE IF IsZero(self.height) THEN Raise("ZeroDivisionError")
            ELSE Return(Sub(
                     Mul(Mul(FloorDiv(square.value, self.height),
                             RATE_CALORIE_WALK_RIGHT),
                         self.weight),
                     Mul(Mul(Mul(RATE_CALORIE_WALK_LEFT, self.weight),
                             self.duration),
                         PyInt(MINUTES_IN_HOUR))))
    IN  Calories(Squared(get_mean_speed(self)))

\* speed ** 2 // height * 0.029 * weight + 0.035 * weight * duration * 60:
\* ** binds tightest, then // and * from left to right, then +.  The
\* operands are evaluated in that order too: get_mean_speed may raise
\* ZeroDivisionError, then ** 2 OverflowError, then // ZeroDivisionError.
SportsWalking_get_spent_calories(self) ==
    LET Calories(square) ==
            IF square.raised # "none" THEN square
            ELSE IF IsZero(self.height) THEN Raise("ZeroDivisionError")
            ELSE Return(Add(
                     Mul(Mul(FloorDiv(square.value, self.height),
                             RATE_CALORIE_WALK_RIGHT),
                         self.weight),
                     Mul(Mul(Mul(RATE_CALORIE_WALK_LEFT, self.weight),
                             self.duration),
                         PyInt(MINUTES_IN_HOUR))))
    IN  Calories(Squared(get_mean_speed(self)))

Swimming_get_spent_calories(self) ==
    LET Calories(speed) ==
            IF speed.raised # "none" THEN speed
            ELSE Return(Mul(Mul(Add(speed.value, RATE_CALORIE_SWIM_LEFT),
                                PyInt(RATE_CALORIE_SWIM_RIGHT)),
                            self.weight))
    IN  Calories(get_mean_speed(self))

\* Training.get_spent_calories raises NotImplementedError; every concrete
\* class overrides it
get_spent_calories(self) ==
    CASE self.cls = "Running"       -> Running_get_spent_calories(self)
      [] self.cls = "SportsWalking" -> SportsWalking_get_spent_calories(self)
      [] self.cls = "Swimming"      -> Swimming_get_spent_calories(self)
      [] OTHER                      -> Raise("NotImplementedError")

\* the keyword arguments are evaluated in the order written; the first
\* exception propagates
show_training_info(self) ==
    LET InfoMessage(distance, speed, calories) ==
            IF distance.raised # "none" THEN distance
            ELSE IF speed.raised # "none" THEN speed
            ELSE IF calories.raised # "none" THEN calories
            ELSE Return([training_type |-> self.cls,
                         duration      |-> self.duration,
                         distance      |-> distance.value,
                         speed         |-> speed.value,
                         calories      |-> calories.value])
    IN  InfoMessage(get_distance(self), get_mean_speed(self),
                    get_spent_calories(self))

-----------------------------------------------------------------------------
(* InfoMessage.get_message: MESSAGE formatted with the fields of self.    *)
(* TLA+ strings are ASCII, so the Cyrillic labels are transliterated.      *)

get_message(self) ==
    "Tip trenirovki: " \o self.training_type \o "; "
    \o "Dlitelnost: " \o Format3f(self.duration) \o " ch.; "
    \o "Distantsiya: " \o Format3f(self.distance) \o " km; "
    \o "Sr. skorost: " \o Format3f(self.speed) \o " km/ch; "
    \o "Potracheno kkal: " \o Format3f(self.calories) \o "."

-----------------------------------------------------------------------------
(* read_package and main.                                                  *)

dictionary == [SWM |-> "Swimming", RUN |-> "Running", WLK |-> "SportsWalking"]

Contains(s, c) == \E i \in 1..Len(s) : SubSeq(s, i, i) = c

\* The characters with the code points 1..95 and 97..255, in that order.
\* A TLA+ string holds no character above 255 and no grave accent (code
\* point 96), so these are all the characters a key of the model can hold.
Latin1Low ==
    "\t\n\f\r"
    \o ""
    \o " !\"#$%&'()*+,-./"
    \o "0123456789:;<=>?"
    \o "@ABCDEFGHIJKLMNO"
    \o "PQRSTUVWXYZ[\\]^_"

Latin1High ==
    "abcdefghijklmno"
    \o "pqrstuvwxyz{|}~"
    \o ""
    \o ""
    \o " ¡¢£¤¥¦§¨©ª«¬­®¯"
    \o "°±²³´µ¶·¸¹º»¼½¾¿"
    \o "ÀÁÂÃÄÅÆÇÈÉÊËÌÍÎÏ"
    \o "ÐÑÒÓÔÕÖ×ØÙÚÛÜÝÞß"
    \o "àáâãäåæçèéêëìíîï"
    \o "ðñòóôõö÷øùúûüýþÿ"

HexDigits == "0123456789abcdef"

\* the code point of the one-character string c
ord(c) ==
    LET Found(s) == \E i \in 1..Len(s) : SubSeq(s, i, i) = c
        Index(s) == CHOOSE i \in 1..Len(s) : SubSeq(s, i, i) = c
    IN  IF Found(Latin1Low) THEN Index(Latin1Low)
        ELSE IF Found(Latin1High) THEN 96 + Index(Latin1High)
        ELSE 96

\* str.isprintable for a code point below 256: false for the control
\* characters, the no-break space and the soft hyphen
isprintable(n) ==
    ~(n < 32 \/ n = 127 \/ (n >= 128 /\ n <= 160) \/ n = 173)

\* the escape \xNN with two lowercase hexadecimal digits
HexEscape(n) ==
    "\\x" \o SubSeq(HexDigits, n \div 16 + 1, n \div 16 + 1)
          \o SubSeq(HexDigits, (n % 16) + 1, (n % 16) + 1)

\* the character c as repr writes it between quote characters
EscapeChar(c, quote) ==
    IF c = "\\" THEN "\\\\"
    ELSE IF c = quote THEN "\\" \o c
    ELSE IF c = "\n" THEN "\\n"
    ELSE IF c = "\r" THEN "\\r"
    ELSE IF c = "\t" THEN "\\t"
    ELSE IF ~isprintable(ord(c)) THEN HexEscape(ord(c))
    ELSE c

RECURSIVE Escape(_, _, _, _)
\* the characters i..j of s, escaped
Escape(s, i, j, quote) ==
    IF i > j THEN ""
    ELSE IF i = j THEN EscapeChar(SubSeq(s, i, i), quote)
    ELSE Escape(s, i, (i + j) \div 2, quote)
         \o Escape(s, (i + j) \div 2 + 1, j, quote)

\* repr of a str: in single quotes, unless it holds a single quote and no
\* double quote
repr(s) ==
    LET Quoted(quote) == quote \o Escape(s, 1, Len(s), quote) \o quote
    IN  Quoted(IF Contains(s, "'") /\ ~Contains(s, "\"") THEN "\"" ELSE "'")

\* the line read_package prints in its except KeyError branch: str of a
\* KeyError is the repr of the missing key
KeyErrorLine(workout_type) ==
    "KeyError: ne udalos poluchit znachenie po klyuchu: " \o repr(workout_type)

\* what read_package writes to the console
read_package_prints(workout_type, args) ==
    IF workout_type \in DOMAIN dictionary
    THEN <<>>
    ELSE <<KeyErrorLine(workout_type)>>

\* mutant: an unknown code falls back to Running (dictionary.get with a
\* default) instead of raising
read_package_Default(workout_type, args) ==
    IF workout_type \in DOMAIN dictionary
    THEN Instantiate(dictionary[workout_type], args)
    ELSE Instantiate("Running", args)

\* the KeyError of the lookup is caught and ValueError raised in its place;
\* the TypeError of the constructor call is not caught
read_package(workout_type, args) ==
    IF workout_type \in DOMAIN dictionary
    THEN Instantiate(dictionary[workout_type], args)
    ELSE Raise("ValueError")

\* print(info.get_message()): the printed lines; an exception raised while
\* info was computed escapes instead
PrintMessage(i) ==
    IF i.raised # "none"
    THEN [printed |-> <<>>, raised |-> i.raised]
    ELSE [printed |-> <<get_message(i.value)>>, raised |-> "none"]

\* main(training): the printed lines and the exception that escapes, if any
main(self) == PrintMessage(show_training_info(self))

-----------------------------------------------------------------------------
(* Inputs.                                                                 *)

\* longest parameter list tried: the largest arity plus MaxSurplus
MaxSurplus == 1
\* largest value of speed ** 2 // height looked for
MaxFloor == 20
\* most get_message calls made on one record
MaxMessages == 2
\* longest batch the entry-point loop is run on
MaxBatch == 2

\* the three codes, and keys the dictionary does not hold: one with a quote
\* and one with a control character (a form feed)
WorkoutTypes == {"SWM", "RUN", "WLK", "XYZ", "it's", "RUN\f"}

\* sensor values: the ints of the __main__ block, a float duration (27
\* minutes), a height that 9000 steps in 27 minutes square to within one
\* rounding, a step count whose distance lies between two printed values,
\* and the values 0 and -1 that a sensor should not send
Actions   == {PyInt(0), PyInt(30), PyInt(720), PyInt(9000), PyInt(15000)}
Durations == {PyInt(-1), PyInt(0), Lit(45, 100), PyInt(1)}
Weights   == {PyInt(0), PyInt(75), PyInt(80)}
Fourths   == {PyInt(25), PyInt(169), PyInt(180)}
Fifths    == {PyInt(0), PyInt(40)}
Surplus   == PyInt(1)

FullLists ==
    { five \o [i \in 1..MaxSurplus |-> Surplus] :
        five \in Actions \X Durations \X Weights \X Fourths \X Fifths }

\* walks on the edges of speed ** 2:
\*   [18265, 1, 75, 140.9503200625]: the speed is 11.87225, whose square
\*     rounds to the height, and ** 2 gives the double below the height;
\*   [1787, 3, 75, 0.14991093361111107]: the speed is 0.38718333333333327,
\*     whose square rounds to the double below the height, and ** 2 gives
\*     the height;
\*   [15000, 1e-160, 75, 180]: the speed is 9.75e+160 and its square is
\*     beyond the largest double
EdgeLists ==
    { <<PyInt(18265), PyInt(1), PyInt(75),
        PyFloat(0, <<9586, 5754, 9872, 1127>>, -45)>>,
      <<PyInt(1787), PyInt(3), PyInt(75),
        PyFloat(0, <<5656, 14936, 1152, 1228>>, -55)>>,
      <<PyInt(15000), PyFloat(0, <<11892, 2541, 10689, 1439>>, -584),
        PyInt(75), PyInt(180)>> }

DataLists ==
    EdgeLists \cup
    UNION { { SubSeq(t, 1, k) : t \in FullLists } : k \in 0..(5 + MaxSurplus) }

Ints(seq) == [i \in 1..Len(seq) |-> PyInt(seq[i])]

\* the packages of the __main__ block, and packages that fail
SamplePackages ==
    { <<"SWM", Ints(<<720, 1, 80, 25, 40>>)>>,
      <<"RUN", Ints(<<15000, 1, 75>>)>>,
      <<"WLK", Ints(<<9000, 1, 75, 180>>)>>,
      <<"XYZ", Ints(<<15000, 1, 75>>)>>,
      <<"RUN", Ints(<<15000, 1>>)>>,
      <<"RUN", Ints(<<15000, 0, 75>>)>> }

RECURSIVE BatchesUpTo(_)
BatchesUpTo(k) ==
    IF k = 0 THEN {<<>>}
    ELSE LET shorter == BatchesUpTo(k - 1)
         IN  shorter \cup { Append(b, p) : b \in shorter, p \in SamplePackages }

Batches == BatchesUpTo(MaxBatch)

-----------------------------------------------------------------------------
(* Spec: a caller builds one record with read_package and then calls its   *)
(* methods in any order, any number of times.                              *)

VARIABLES
    workout_type,   \* Spec: the code last passed to read_package
    data,           \* Spec: the parameter list last passed to read_package
    training,       \* the Training record read_package returned, or None
    ret,            \* outcome of the last call: [op, raised, value]
    info,           \* the InfoMessage last returned by show_training_info, or None
    message,        \* the string last returned by get_message, or NoMessage
    first_message,  \* the string returned by the first get_message, or NoMessage
    n_messages,     \* Spec: how many times get_message has been called
    packages,       \* SpecBatch: the list the entry-point loop iterates over
    idx,            \* SpecBatch: position of the loop in packages (1-based)
    pc,             \* SpecBatch: "read" | "main" | "done" | "raised"
    stdout,         \* SpecBatch: the lines printed so far
    outcomes        \* SpecBatch: per processed pair, what it produced

vars == <<workout_type, data, training, ret, info, message, first_message,
          n_messages,
          packages, idx, pc, stdout, outcomes>>

\* no message yet (get_message never returns the empty string)
NoMessage == ""

Outcome(op, r) == [op |-> op, raised |-> r.raised, value |-> r.value]

Init ==
    /\ workout_type = ""
    /\ data = <<>>
    /\ training = None
    /\ ret = [op |-> "init", raised |-> "none", value |-> None]
    /\ info = None
    /\ message = NoMessage
    /\ first_message = NoMessage
    /\ n_messages = 0
    /\ packages = <<>>
    /\ idx = 1
    /\ pc = "done"
    /\ stdout = <<>>
    /\ outcomes = <<>>

ReadPackage ==
    /\ ret.op = "init"
    /\ \E wt \in WorkoutTypes, d \in DataLists :
         \E r \in {read_package(wt, d)} :
             /\ workout_type' = wt
             /\ data' = d
             /\ training' = r.value
             /\ ret' = Outcome("read_package", r)
             /\ stdout' = stdout \o read_package_prints(wt, d)
    /\ UNCHANGED <<info, message, first_message, n_messages, packages, idx, pc,
                   outcomes>>

CallGetDistance ==
    /\ training # None
    /\ ret' = Outcome("get_distance", get_distance(training))
    /\ UNCHANGED <<workout_type, data, training, info, message, first_message,
                   n_messages, packages, idx, pc, stdout, outcomes>>

CallGetMeanSpeed ==
    /\ training # None
    /\ ret' = Outcome("get_mean_speed", get_mean_speed(training))
    /\ UNCHANGED <<workout_type, data, training, info, message, first_message,
                   n_messages, packages, idx, pc, stdout, outcomes>>

CallGetSpentCalories ==
    /\ training # None
    /\ ret' = Outcome("get_spent_calories", get_spent_calories(training))
    /\ UNCHANGED <<workout_type, data, training, info, message, first_message,
                   n_messages, packages, idx, pc, stdout, outcomes>>

\* mutant: show_training_info converts the duration to minutes in place
CallShowTrainingInfo_Mutates ==
    /\ training # None
    /\ \E r \in {show_training_info(training)} :
           /\ ret' = Outcome("show_training_info", r)
           /\ info' = IF r.raised = "none" THEN r.value ELSE info
    /\ training' = [training EXCEPT
                      !.duration = Mul(@, PyInt(MINUTES_IN_HOUR))]
    /\ UNCHANGED <<workout_type, data, message, first_message, n_messages,
                   packages, idx, pc, stdout, outcomes>>

CallShowTrainingInfo ==
    /\ training # None
    /\ \E r \in {show_training_info(training)} :
           /\ ret' = Outcome("show_training_info", r)
           /\ info' = IF r.raised = "none" THEN r.value ELSE info
    /\ UNCHANGED <<workout_type, data, training, message, first_message,
                   n_messages, packages, idx, pc, stdout, outcomes>>

\* get_message on the InfoMessage show_training_info returned last, at any
\* later time
CallGetMessage ==
    /\ info # None
    /\ n_messages < MaxMessages
    /\ n_messages' = n_messages + 1
    /\ \E m \in {get_message(info)} :
           /\ ret' = [op |-> "get_message", raised |-> "none", value |-> m]
           /\ message' = m
           /\ first_message' = IF first_message = NoMessage THEN m
                               ELSE first_message
    /\ UNCHANGED <<workout_type, data, training, info,
                   packages, idx, pc, stdout, outcomes>>

Next ==
    \/ ReadPackage
    \/ CallGetDistance
    \/ CallGetMeanSpeed
    \/ CallGetSpentCalories
    \/ CallShowTrainingInfo
    \/ CallGetMessage

Spec == Init /\ [][Next]_vars

-----------------------------------------------------------------------------
(* SpecBatch: the entry-point loop                                         *)
(*     for workout_type, data in packages:                                 *)
(*         training = read_package(workout_type, data)                     *)
(*         main(training)                                                  *)
(* An exception that escapes read_package or main is caught nowhere and    *)
(* ends the program.                                                       *)

\* what one pair produces when processed on its own: the lines it prints
\* and the exception that escapes, if any
OutcomeOf(pair) ==
    LET Body(r) ==
            IF r.raised # "none"
            THEN [printed |-> read_package_prints(pair[1], pair[2]),
                  raised  |-> r.raised]
            ELSE main(r.value)
    IN  Body(read_package(pair[1], pair[2]))

InitBatch ==
    /\ packages \in Batches
    /\ idx = 1
    /\ pc = IF Len(packages) = 0 THEN "done" ELSE "read"
    /\ workout_type = ""
    /\ data = <<>>
    /\ training = None
    /\ ret = [op |-> "init", raised |-> "none", value |-> None]
    /\ info = None
    /\ message = NoMessage
    /\ first_message = NoMessage
    /\ n_messages = 0
    /\ stdout = <<>>
    /\ outcomes = <<>>

\* training = read_package(workout_type, data)
LoopReadPackage ==
    /\ pc = "read"
    /\ \E wt \in {packages[idx][1]}, d \in {packages[idx][2]} :
         \E r \in {read_package(wt, d)} :
           /\ workout_type' = wt
           /\ data' = d
           /\ ret' = Outcome("read_package", r)
           /\ stdout' = stdout \o read_package_prints(wt, d)
           /\ IF r.raised # "none"
              THEN /\ pc' = "raised"
                   /\ outcomes' = Append(outcomes,
                          [printed |-> read_package_prints(wt, d),
                           raised  |-> r.raised])
                   /\ UNCHANGED training
              ELSE /\ pc' = "main"
                   /\ training' = r.value
                   /\ UNCHANGED outcomes
    /\ UNCHANGED <<info, message, first_message, n_messages, packages, idx>>

\* main(training), then the next iteration or the end of the loop
LoopMain ==
    /\ pc = "main"
    /\ \E m \in {main(training)} :
           /\ ret' = [op |-> "main", raised |-> m.raised, value |-> None]
           /\ stdout' = stdout \o m.printed
           /\ outcomes' = Append(outcomes, m)
           /\ IF m.raised # "none"
              THEN /\ pc' = "raised"
                   /\ UNCHANGED idx
              ELSE /\ idx' = idx + 1
                   /\ pc' = IF idx + 1 > Len(packages) THEN "done" ELSE "read"
    /\ UNCHANGED <<workout_type, data, training, info, message, first_message,
                   n_messages, packages>>

NextBatch ==
    \/ LoopReadPackage
    \/ LoopMain

SpecBatch == InitBatch /\ [][NextBatch]_vars

-----------------------------------------------------------------------------
(* Vocabulary of the properties.                                           *)

\* the exception read_package raises for a code that is not a key of
\* dictionary
InvalidActivityCode == "ValueError"

\* the exception the constructor call raises when the list does not fit the
\* parameters of __init__
InvalidParameterCount == "TypeError"

KnownCodes == {"SWM", "RUN", "WLK"}

Called(op) == ret.op = op
Returned(op) == ret.op = op /\ ret.raised = "none"

Positive(x)    == Lt(PyInt(0), x)
NonNegative(x) == Le(PyInt(0), x)

\* |x|
Magnitude(x) == IF Lt(x, PyInt(0)) THEN Sub(PyInt(0), x) ELSE x

\* x and y agree to nine significant digits: the sense in which a float
\* result "is" the decimal written in a statement
Close(x, y) ==
    Le(Magnitude(Sub(x, y)), Mul(Lit(1, 1000000000), Magnitude(y)))

\* the record in training was built from inputs the specification calls valid
ValidInputs ==
    /\ training # None
    /\ NonNegative(training.action)
    /\ Positive(training.duration)
    /\ Positive(training.weight)
    /\ training.cls = "SportsWalking" => Positive(training.height)
    /\ training.cls = "Swimming" =>
           NonNegative(training.length_pool) /\ NonNegative(training.count_pool)

-----------------------------------------------------------------------------
(* C1: for every code other than "SWM", "RUN", "WLK" and every parameter   *)
(* list, read_package fails with the unknown-code error (ValueError), and  *)
(* no training record is returned.                                         *)
C1_UnknownCodeRejected ==
    (~Called("init") /\ workout_type \notin KnownCodes) =>
        /\ Called("read_package")
        /\ ret.raised = InvalidActivityCode
        /\ ret.value = None
        /\ training = None

\* read_package has been called with "XYZ" and a list Running would accept
C1_Witness ==
    /\ Called("read_package")
    /\ workout_type = "XYZ"
    /\ Len(data) = 3
    /\ ret.raised = InvalidActivityCode

(* C2: for a recognised code, a parameter list whose length differs from   *)
(* the arity of the variant (RUN 3, WLK 4, SWM 5) is rejected with the     *)
(* arity error (TypeError) by read_package itself; the arity error never   *)
(* comes from a later distance, speed or calorie evaluation.               *)
C2_WrongArityRejected ==
    /\ ( /\ ~Called("init")
         /\ workout_type \in KnownCodes
         /\ Len(data) # (CASE workout_type = "RUN" -> 3
                           [] workout_type = "WLK" -> 4
                           [] workout_type = "SWM" -> 5) ) =>
           /\ Called("read_package")
           /\ ret.raised = InvalidParameterCount
           /\ ret.value = None
           /\ training = None
    /\ ret.raised = InvalidParameterCount => Called("read_package")

\* read_package has rejected a SportsWalking list with one value too many
C2_Witness ==
    /\ Called("read_package")
    /\ workout_type = "WLK"
    /\ Len(data) = 5
    /\ ret.raised = InvalidParameterCount

(* C3: for a recognised code and a list of the right length, a duration    *)
(* <= 0 or a weight <= 0 makes read_package fail at construction, so no    *)
(* record with duration 0 exists and no call divides by zero.              *)
C3_NonPositiveRejected ==
    /\ ( /\ ~Called("init")
         /\ workout_type \in KnownCodes
         /\ Len(data) = (CASE workout_type = "RUN" -> 3
                           [] workout_type = "WLK" -> 4
                           [] workout_type = "SWM" -> 5)
         /\ (~Positive(data[2]) \/ ~Positive(data[3])) ) =>
           /\ Called("read_package")
           /\ ret.raised # "none"
           /\ training = None
    /\ training # None => ~IsZero(training.duration)
    /\ ret.raised # "ZeroDivisionError"

\* show_training_info has produced the summary of a record built from
\* valid inputs
ValidSummary == ValidInputs /\ Returned("show_training_info")

\* the only way show_training_info produces no summary for valid inputs:
\* a walking speed whose square is beyond the largest double
NoSummary ==
    /\ ret.raised = "OverflowError"
    /\ training.cls = "SportsWalking"
    /\ Returned("show_training_info")
    /\ ret.value.training_type = "Running"
    /\ Lt(ret.value.calories, PyInt(0))

\* the Running package of the __main__ block has been read
SampleRunning ==
    /\ workout_type = "RUN"
    /\ data = <<PyInt(15000), PyInt(1), PyInt(75)>>
    /\ training # None

(* C5 as stated: for read_package('RUN', [15000, 1, 75]) the distance is   *)
(* 9.75, the mean speed is 9.75 and the calories are 655.3125.             *)
C5_SampleRunning ==
    /\ (SampleRunning /\ Called("get_distance")) =>
           ret.raised = "none" /\ Close(ret.value, Lit(975, 100))
    /\ (SampleRunning /\ Called("get_mean_speed")) =>
           ret.raised = "none" /\ Close(ret.value, Lit(975, 100))
    /\ (SampleRunning /\ Called("get_spent_calories")) =>
           ret.raised = "none" /\ Close(ret.value, Lit(6553125, 10000))
    /\ (SampleRunning /\ Called("show_training_info")) =>
           /\ ret.raised = "none"
           /\ Close(ret.value.distance, Lit(975, 100))
           /\ Close(ret.value.speed, Lit(975, 100))
           /\ Close(ret.value.calories, Lit(6553125, 10000))

(* C5 amended: for read_package('RUN', [15000, 1, 75]) the distance is     *)
(* 9.75, the mean speed is 9.75 and the calories are 699.75, each the      *)
(* float that decimal denotes.                                             *)
C5_SampleRunningAmended ==
    /\ (SampleRunning /\ Called("get_distance")) =>
           ret = [op |-> "get_distance", raised |-> "none",
                  value |-> Lit(975, 100)]
    /\ (SampleRunning /\ Called("get_mean_speed")) =>
           ret = [op |-> "get_mean_speed", raised |-> "none",
                  value |-> Lit(975, 100)]
    /\ (SampleRunning /\ Called("get_spent_calories")) =>
           ret = [op |-> "get_spent_calories", raised |-> "none",
                  value |-> Lit(69975, 100)]
    /\ (SampleRunning /\ Called("show_training_info")) =>
           /\ ret.raised = "none"
           /\ ret.value.distance = Lit(975, 100)
           /\ ret.value.speed = Lit(975, 100)
           /\ ret.value.calories = Lit(69975, 100)

\* the summary of the sample Running package has been computed
C5_Witness ==
    /\ SampleRunning
    /\ Returned("show_training_info")
    /\ ret.value.training_type = "Running"

(* C6: for a valid Running record, get_distance = action * 0.65 / 1000,    *)
(* get_mean_speed = get_distance / duration, and get_spent_calories =      *)
(* (18 * meanSpeed - 20) * weight / 1000 * duration * 60 with that same    *)
(* mean speed, each evaluated from left to right in float arithmetic; the  *)
(* calories agree to nine digits with the closed form                      *)
(* weight * (351 * action / 500000 - 6 * duration / 5).                    *)
C6_RunningFormulas ==
    (ValidInputs /\ training.cls = "Running") =>
        LET a == training.action
            t == training.duration
            w == training.weight
            dist  == Div(Mul(a, Lit(65, 100)), PyInt(1000))
            speed == Div(dist, t)
            kcal  == Mul(w, Sub(Div(Mul(PyInt(351), a), PyInt(500000)),
                                Div(Mul(PyInt(6), t), PyInt(5))))
        IN  /\ Called("get_distance") =>
                ret.raised = "none" /\ ret.value = dist
            /\ Called("get_mean_speed") =>
                ret.raised = "none" /\ ret.value = speed
            /\ Called("get_spent_calories") =>
                ret.raised = "none" /\ Close(ret.value, kcal)
            /\ Called("show_training_info") =>
                /\ ret.raised = "none"
                /\ ret.value.distance = dist
                /\ ret.value.speed = Div(ret.value.distance, t)
                /\ ret.value.calories =
                       Mul(Mul(Div(Mul(Sub(Mul(PyInt(18), ret.value.speed),
                                           PyInt(20)),
                                       w),
                                   PyInt(1000)),
                               t),
                           PyInt(60))
                /\ Close(ret.value.calories, kcal)

\* the summary of a valid 27-minute run with a positive step count
C6_Witness ==
    /\ ValidInputs
    /\ training.cls = "Running"
    /\ training.duration = Lit(45, 100)
    /\ Positive(training.action)
    /\ Returned("show_training_info")

(* get_mean_speed = length_pool * count_pool / 1000 / duration, whatever   *)
(* the action count; get_spent_calories = (meanSpeed + 1.1) * 2 * weight   *)
(* with that speed, each evaluated from left to right in float arithmetic. *)
(* For (720, 1, 80, 25, 40): distance 0.9936 to nine digits (printed       *)
(* 0.994), speed 1.0, calories 336.0.                                      *)
C8_SwimmingFormulas ==
    (ValidInputs /\ training.cls = "Swimming") =>
        LET t == training.duration
            w == training.weight
            dist  == Div(Mul(training.action, Lit(138, 100)), PyInt(1000))
            speed == Div(Div(Mul(training.length_pool, training.count_pool),
                             PyInt(1000)), t)
            kcal  == Mul(Mul(Add(speed, Lit(11, 10)), PyInt(2)), w)
            sample == data = <<PyInt(720), PyInt(1), PyInt(80),
                               PyInt(25), PyInt(40)>>
        IN  /\ Called("get_distance") =>
                /\ ret.raised = "none" /\ ret.value = dist
                /\ sample => Close(ret.value, Lit(9936, 10000))
            /\ Called("get_mean_speed") =>
                /\ ret.raised = "none" /\ ret.value = speed
                /\ sample => ret.value = ToFloat(PyInt(1))
                /\ \A a \in Actions :
                     get_mean_speed([training EXCEPT !.action = a]) = Return(speed)
            /\ Called("get_spent_calories") =>
                /\ ret.raised = "none" /\ ret.value = kcal
                /\ sample => ret.value = ToFloat(PyInt(336))
            /\ Called("show_training_info") =>
                /\ ret.raised = "none"
                /\ ret.value.distance = dist
                /\ ret.value.speed = speed
                /\ ret.value.calories =
                       Mul(Mul(Add(ret.value.speed, Lit(11, 10)), PyInt(2)), w)
                /\ sample => /\ Close(ret.value.distance, Lit(9936, 10000))
                             /\ Format3f(ret.value.distance) = "0.994"
                             /\ ret.value.speed = ToFloat(PyInt(1))
                             /\ ret.value.calories = ToFloat(PyInt(336))

\* the mean speed of the sample swim (720 strokes, 40 laps of 25 m)
C8_Witness ==
    /\ ValidInputs
    /\ training.cls = "Swimming"
    /\ data = <<PyInt(720), PyInt(1), PyInt(80), PyInt(25), PyInt(40)>>
    /\ Returned("get_mean_speed")

(* C9: when the entry-point loop has ended, every pair of the batch has    *)
(* produced exactly what it produces when processed on its own (its        *)
(* printed line or its error), whatever the other pairs of the batch are;  *)
(* a failing pair suppresses no other pair's outcome.                      *)
C9_IndependentOutcomes ==
    pc \in {"done", "raised"} =>
        /\ Len(outcomes) = Len(packages)
        /\ \A i \in 1..Len(packages) : outcomes[i] = OutcomeOf(packages[i])

(* C10: after any sequence of get_distance, get_mean_speed,                *)
(* get_spent_calories, show_training_info and get_message calls, the       *)
(* fields of the record are those given at construction, and a summary     *)
(* computed again is identical to the first one.                           *)
C10_ImmutableAndIdempotent ==
    /\ training # None =>
         /\ training.action = data[1]
         /\ training.duration = data[2]
         /\ training.weight = data[3]
         /\ training.cls = "SportsWalking" => training.height = data[4]
         /\ training.cls = "Swimming" =>
                training.length_pool = data[4] /\ training.count_pool = data[5]
    /\ n_messages > 0 => message = first_message
    /\ Called("get_message") => ret.value = first_message

\* the summary of a record has been computed and rendered a second time
C10_Witness ==
    /\ training # None
    /\ Called("get_message")
    /\ n_messages = 2
    /\ message = first_message

====
